---- MODULE Spec2Model ----
(***************************************************************************)
(* TTL cache (util/cache) of k8s-manifest-kit/pkg: defaultCache[T] with    *)
(* its key normalizer, the RWMutex discipline of Get/Set/Sync, and the     *)
(* renderCache wrapper that deep-clones []unstructured.Unstructured.       *)
(*                                                                         *)
(* Time is counted in minutes.  Strings are sequences of byte codes.       *)
(***************************************************************************)
EXTENDS Integers, Sequences, FiniteSets, TLC

VARIABLES
    now,        \* the wall clock read by time.Now()
    ttl,        \* defaultCache.ttl
    keyFunc,    \* defaultCache.keyFunc: "default" or "custom"
    entries,    \* defaultCache.entries: map[string]entry[T]
    ret,        \* the last call of the sequential client and what it returned
    lastSet,    \* history: per normalized key, the latest Set(key, value, time)
    mu,         \* defaultCache.mu: the sync.RWMutex
    pc,         \* per goroutine: position inside Get / Set / Sync
    loc,        \* per goroutine: arguments and locals of the running call
    done,       \* history: per normalized key, the Set calls that have written
    arrs,       \* heap: backing arrays of []unstructured.Unstructured
    objs,       \* heap: the Object maps of the Unstructured elements
    held,       \* the slices the caller holds, with where each came from
    stored,     \* history: per normalized key, the content given to Set
    wrapper,    \* the *renderCache in use: "nil", "nocache" (cache == nil), "ready"
    call,       \* a call of a function under study: its name, arguments, result
    plain,      \* a defaultCache given the same calls, with values nobody changes
    cells       \* heap: the maps and slices of the trees given to util/maps

cacheVars  == <<now, ttl, keyFunc, entries>>
seqVars    == <<ret, lastSet>>
concVars   == <<mu, pc, loc, done>>
envVars    == <<wrapper, call, plain, cells>>
heapVars   == <<arrs, objs, held, stored, wrapper, call, plain, cells>>
vars       == <<now, ttl, keyFunc, entries, ret, lastSet, mu, pc, loc, done,
                arrs, objs, held, stored, wrapper, call, plain, cells>>

----------------------------------------------------------------------------
(* Bounds *)

MaxTime   == 2      \* the clock stops advancing here
NumValues == 2      \* values of T are 1..NumValues
MaxOpts   == 2      \* longest option list given to New

(* Program constants *)

defaultTTL == 5     \* 5 * time.Minute

Values == 1 .. NumValues
Zero   == 0         \* "var zero T"

----------------------------------------------------------------------------
(* Keys: values of type any, with their dynamic type *)

StrKey(s)        == [kind |-> "string", v |-> s, w |-> <<>>]
BytesKey(s)      == [kind |-> "bytes", v |-> s, w |-> <<>>]
IntKey(n)        == [kind |-> "int", v |-> <<n>>, w |-> <<>>]
Int64Key(n)      == [kind |-> "int64", v |-> <<n>>, w |-> <<>>]
Int32Key(n)      == [kind |-> "int32", v |-> <<n>>, w |-> <<>>]
SpecKey(p, ver)  == [kind |-> "customSpec", v |-> p, w |-> ver]
NoKey            == [kind |-> "none", v |-> <<>>, w |-> <<>>]

\* "1" = <<49>>, "/p" = <<47, 112>>, "v1" = <<118, 49>>
Keys ==
    { StrKey(<<49>>), IntKey(1),
      SpecKey(<<47, 112>>, <<118, 49>>), SpecKey(<<47, 112>>, <<118, 50>>) }

\* strconv.Itoa / strconv.FormatInt(k, 10)
RECURSIVE FormatUint(_)
FormatUint(n) ==
    IF n < 10 THEN <<48 + n>>
    ELSE FormatUint(n \div 10) \o <<48 + (n % 10)>>

FormatInt(n) == IF n < 0 THEN <<45>> \o FormatUint(0 - n) ELSE FormatUint(n)

\* the name of an integer type in parentheses: "(int)", "(int32)", "(int64)"
TypeInParens(kind) ==
    CASE kind = "int"   -> <<40, 105, 110, 116, 41>>
      [] kind = "int32" -> <<40, 105, 110, 116, 51, 50, 41>>
      [] kind = "int64" -> <<40, 105, 110, 116, 54, 52, 41>>

\* dump.ForHash of a struct {Path, Version}: "{Path:<p> Version:<v>}" with the
\* field values spelled out, so that equal structs give equal text; of an
\* integer, the "%#v" of spew: the type in parentheses, then the decimal text
ForHash(k) ==
    IF k.kind \in {"int", "int32", "int64"}
    THEN TypeInParens(k.kind) \o FormatInt(k.v[1])
    ELSE <<123>> \o k.v \o <<32>> \o k.w \o <<125>>

\* (a DefaultKeyFunc without the case for int64)
DefaultKeyFuncNoInt64(k) ==
    CASE k.kind = "string" -> k.v
      [] k.kind = "bytes"  -> k.v
      [] k.kind = "int"    -> FormatInt(k.v[1])
      [] OTHER             -> ForHash(k)

DefaultKeyFunc(k) ==
    CASE k.kind = "string" -> k.v
      [] k.kind = "bytes"  -> k.v
      [] k.kind = "int"    -> FormatInt(k.v[1])
      [] k.kind = "int64"  -> FormatInt(k.v[1])
      [] OTHER             -> ForHash(k)

\* customKeyFunc of TestCacheKeyFunc: only the Path of a customSpec
customKeyFunc(k) == IF k.kind = "customSpec" THEN k.v ELSE <<>>

ApplyKeyFunc(f, k) == IF f = "custom" THEN customKeyFunc(k) ELSE DefaultKeyFunc(k)

----------------------------------------------------------------------------
(* Options and New *)

WithTTL(d)      == [opt |-> "WithTTL", TTL |-> d, KeyFunc |-> "nil"]
WithKeyFunc(f)  == [opt |-> "WithKeyFunc", TTL |-> 0, KeyFunc |-> f]
Options(d, f)   == [opt |-> "Options", TTL |-> d, KeyFunc |-> f]

\* (an ApplyTo whose struct Options overwrites both fields whatever they hold)
ApplyToOverwrites(o, target) ==
    CASE o.opt = "WithTTL"     -> [target EXCEPT !.TTL = o.TTL]
      [] o.opt = "WithKeyFunc" -> [target EXCEPT !.KeyFunc = o.KeyFunc]
      [] OTHER -> [TTL |-> o.TTL, KeyFunc |-> o.KeyFunc]

ApplyTo(o, target) ==
    CASE o.opt = "WithTTL"     -> [target EXCEPT !.TTL = o.TTL]
      [] o.opt = "WithKeyFunc" -> [target EXCEPT !.KeyFunc = o.KeyFunc]
      [] OTHER ->
            [TTL     |-> IF o.TTL > 0 THEN o.TTL ELSE target.TTL,
             KeyFunc |-> IF o.KeyFunc # "nil" THEN o.KeyFunc ELSE target.KeyFunc]

RECURSIVE ApplyAll(_, _)
ApplyAll(opts, target) ==
    IF opts = <<>> THEN target
    ELSE ApplyAll(Tail(opts), ApplyTo(Head(opts), target))

\* (a New that takes the options as they come, without the two clamps)
NewNoClamp(opts) ==
    LET applied == ApplyAll(opts, [TTL |-> defaultTTL, KeyFunc |-> "default"])
    IN  [ttl |-> applied.TTL, keyFunc |-> applied.KeyFunc]

New(opts) ==
    LET applied == ApplyAll(opts, [TTL |-> defaultTTL, KeyFunc |-> "default"])
    IN  [ttl     |-> IF applied.TTL <= 0 THEN defaultTTL ELSE applied.TTL,
         keyFunc |-> IF applied.KeyFunc = "nil" THEN "default" ELSE applied.KeyFunc]

OptionSet ==
    { WithTTL(d) : d \in {0 - 1, 0, 1, 2} }
      \cup { WithKeyFunc(f) : f \in {"nil", "custom"} }
      \cup { Options(d, f) : d \in {0, 2}, f \in {"nil", "custom"} }

RECURSIVE OptionLists(_)
OptionLists(n) ==
    IF n = 0 THEN { <<>> }
    ELSE OptionLists(n - 1)
           \cup { Append(l, o) : l \in OptionLists(n - 1), o \in OptionSet }

----------------------------------------------------------------------------
(* defaultCache: the map, entries and the three operations as functions of   *)
(* the store                                                                  *)

NoEntries == [k \in {} |-> 0]

Entry(v, exp) == [value |-> v, expiration |-> exp]

MapPut(m, k, e) == [x \in (DOMAIN m) \cup {k} |-> IF x = k THEN e ELSE m[x]]
MapDelete(m, ks) == [x \in (DOMAIN m) \ ks |-> m[x]]

\* t.After(u)
After(t, u) == t > u

\* (a Get whose expiry test has its operands swapped)
CacheGetSwapped(m, f, k, t) ==
    LET strKey == ApplyKeyFunc(f, k)
    IN  IF strKey \notin DOMAIN m THEN [value |-> Zero, found |-> FALSE]
        ELSE IF After(m[strKey].expiration, t) THEN [value |-> Zero, found |-> FALSE]
        ELSE [value |-> m[strKey].value, found |-> TRUE]

\* defaultCache.Get: (value, found)
CacheGet(m, f, k, t) ==
    LET strKey == ApplyKeyFunc(f, k)
    IN  IF strKey \notin DOMAIN m THEN [value |-> Zero, found |-> FALSE]
        ELSE IF After(t, m[strKey].expiration) THEN [value |-> Zero, found |-> FALSE]
        ELSE [value |-> m[strKey].value, found |-> TRUE]

\* (a Get that evicts the expired entry it finds)
CacheGetStoreEvict(m, f, k, t) ==
    LET strKey == ApplyKeyFunc(f, k)
    IN  IF strKey \in DOMAIN m /\ After(t, m[strKey].expiration)
        THEN MapDelete(m, {strKey})
        ELSE m

\* defaultCache.Get: the store afterwards; Get holds the read lock and
\* writes nothing
CacheGetStore(m, f, k, t) == m

\* (a Set that keeps the expiration of the entry it replaces)
CacheSetKeepExpiry(m, f, d, k, v, t) ==
    LET strKey == ApplyKeyFunc(f, k)
    IN  MapPut(m, strKey,
               Entry(v, IF strKey \in DOMAIN m THEN m[strKey].expiration ELSE t + d))

\* (a Set that leaves an entry that is already stored under the key)
CacheSetIfAbsent(m, f, d, k, v, t) ==
    IF ApplyKeyFunc(f, k) \in DOMAIN m THEN m
    ELSE MapPut(m, ApplyKeyFunc(f, k), Entry(v, t + d))

\* (a Set that starts the map afresh)
CacheSetAlone(m, f, d, k, v, t) == MapPut(NoEntries, ApplyKeyFunc(f, k), Entry(v, t + d))

\* (a Set whose entry expires at the instant of the Set)
CacheSetExpiresNow(m, f, d, k, v, t) == MapPut(m, ApplyKeyFunc(f, k), Entry(v, t))

\* (a Sync that also refreshes the entries it keeps)
CacheSyncRefreshes(m, t) ==
    LET kept == MapDelete(m, { key \in DOMAIN m : After(t, m[key].expiration) })
    IN  [key \in DOMAIN kept |-> Entry(kept[key].value, kept[key].expiration + 1)]

\* defaultCache.Set: the store afterwards
CacheSet(m, f, d, k, v, t) == MapPut(m, ApplyKeyFunc(f, k), Entry(v, t + d))

\* (a Sync without the expiry test: it drops every entry)
CacheSyncAll(m, t) == MapDelete(m, DOMAIN m)

\* (a Sync whose test also counts the instant of expiry as expired)
CacheSyncNotBefore(m, t) ==
    MapDelete(m, { key \in DOMAIN m : ~ After(m[key].expiration, t) })

\* (a Sync that removes nothing)
CacheSyncKeep(m, t) == m

\* defaultCache.Sync: the store afterwards
CacheSync(m, t) ==
    MapDelete(m, { key \in DOMAIN m : After(t, m[key].expiration) })

----------------------------------------------------------------------------
(* Sequential client of one defaultCache[T]: specification Spec *)

\* in ret: the expiration of the entry a Set replaced, when it replaced none
NoExpiration == 0 - 1

\* ret is the call that has just returned, at the present instant of the clock
NoRet == [op |-> "none", key |-> NoKey, value |-> Zero, found |-> FALSE,
          prev |-> NoExpiration]

\* no function is under study
NoCall == [fn |-> "none", in |-> <<>>, out |-> "none"]

IdleMu == [w |-> 0, announced |-> FALSE, readers |-> {}, waiting |-> {}]

ConcIdle ==
    /\ mu = IdleMu
    /\ pc = <<>>
    /\ loc = <<>>
    /\ done = NoEntries

HeapIdle ==
    /\ arrs = <<>>
    /\ objs = <<>>
    /\ held = {}
    /\ stored = NoEntries
    /\ wrapper = "ready"
    /\ call = NoCall
    /\ plain = NoEntries
    /\ cells = <<>>

Init ==
    /\ now = 0
    /\ \E opts \in OptionLists(MaxOpts) :
          /\ ttl = New(opts).ttl
          /\ keyFunc = New(opts).keyFunc
    /\ entries = NoEntries
    /\ ret = NoRet
    /\ lastSet = NoEntries
    /\ ConcIdle
    /\ HeapIdle

\* time passes between calls
Tick ==
    /\ now < MaxTime
    /\ now' = now + 1
    /\ ret' = NoRet
    /\ UNCHANGED <<ttl, keyFunc, entries, lastSet>>
    /\ UNCHANGED <<concVars, heapVars>>

Get(k) ==
    LET r == CacheGet(entries, keyFunc, k, now)
    IN  /\ ret' = [op |-> "Get", key |-> k, value |-> r.value, found |-> r.found,
                   prev |-> NoExpiration]
        /\ entries' = CacheGetStore(entries, keyFunc, k, now)
        /\ UNCHANGED <<now, ttl, keyFunc, lastSet>>
        /\ UNCHANGED <<concVars, heapVars>>

Set(k, v) ==
    LET strKey == ApplyKeyFunc(keyFunc, k)
        prev   == IF strKey \in DOMAIN entries THEN entries[strKey].expiration
                  ELSE NoExpiration
    IN  /\ entries' = CacheSet(entries, keyFunc, ttl, k, v, now)
        /\ ret' = [op |-> "Set", key |-> k, value |-> v, found |-> FALSE,
                   prev |-> prev]
        /\ lastSet' = MapPut(lastSet, strKey,
                             [value |-> v, at |-> now, key |-> k])
        /\ UNCHANGED <<now, ttl, keyFunc>>
        /\ UNCHANGED <<concVars, heapVars>>

Sync ==
    /\ entries' = CacheSync(entries, now)
    /\ ret' = [op |-> "Sync", key |-> NoKey, value |-> Zero, found |-> FALSE,
               prev |-> NoExpiration]
    /\ UNCHANGED <<now, ttl, keyFunc, lastSet>>
    /\ UNCHANGED <<concVars, heapVars>>

Next ==
    \/ Tick
    \/ \E k \in Keys : Get(k)
    \/ \E k \in Keys, v \in Values : Set(k, v)
    \/ Sync

Spec == Init /\ [][Next]_vars

----------------------------------------------------------------------------
(* Properties of the sequential client *)

\* the normalized key of the call that has just returned
RetKey == ApplyKeyFunc(keyFunc, ret.key)

\* C1: a Get of a key whose latest Set (to the same normalized key) is less
\* than ttl old returns that Set's value and found = true, whatever Gets,
\* Syncs, clock ticks and Sets to other keys happened in between.
C1_SetThenGet ==
    (/\ ret.op = "Get"
     /\ RetKey \in DOMAIN lastSet
     /\ now < lastSet[RetKey].at + ttl)
        => (ret.found /\ ret.value = lastSet[RetKey].value)

\* C1 witness: a hit some time after the Set, with a later Set to another key
\* and with the raw key of the Get aliasing the key that was set
C1_Witness ==
    /\ ret.op = "Get"
    /\ ret.found
    /\ RetKey \in DOMAIN lastSet
    /\ now > lastSet[RetKey].at
    /\ \E o \in DOMAIN lastSet : o # RetKey /\ lastSet[o].at > lastSet[RetKey].at

\* C2 as stated: Get returns (zero, false) when the key is absent or
\* now >= expiresAt, the instant now = expiresAt included.
C2_MissAtOrAfterExpiry ==
    (/\ ret.op = "Get"
     /\ \/ RetKey \notin DOMAIN entries
        \/ now >= entries[RetKey].expiration)
        => (~ ret.found /\ ret.value = Zero)

\* C2 amended: Get returns (zero, false) when the key is absent or the clock
\* is strictly after expiresAt; at the instant now = expiresAt the entry is
\* still returned with found = true.
C2_MissAfterExpiry ==
    /\ (/\ ret.op = "Get"
        /\ \/ RetKey \notin DOMAIN entries
           \/ now > entries[RetKey].expiration)
          => (~ ret.found /\ ret.value = Zero)
    /\ (/\ ret.op = "Get"
        /\ RetKey \in DOMAIN entries
        /\ now = entries[RetKey].expiration)
          => (ret.found /\ ret.value = entries[RetKey].value)

\* C2 witness: a Get one minute after the entry's expiration reports a miss
C2_Witness ==
    /\ ret.op = "Get"
    /\ RetKey \in DOMAIN entries
    /\ now = entries[RetKey].expiration + 1
    /\ ~ ret.found

\* C3 as stated: after Sync the store holds no entry with expiresAt <= now.
C3_NoEntryAtOrPastExpiry ==
    ret.op = "Sync" => \A key \in DOMAIN entries : entries[key].expiration > now

\* C3 amended: after Sync the store holds no entry with expiresAt < now; an
\* entry whose expiresAt equals now is kept.
C3_NoEntryPastExpiry ==
    /\ ret.op = "Sync" => \A key \in DOMAIN entries : entries[key].expiration >= now
    /\ ret.op = "Sync" =>
          \A key \in DOMAIN lastSet :
              lastSet[key].at + ttl = now => key \in DOMAIN entries

\* C3 witness: a Sync that removed one expired entry and kept another
C3_Witness ==
    /\ ret.op = "Sync"
    /\ \E key \in DOMAIN lastSet : key \notin DOMAIN entries
    /\ entries # NoEntries

\* C4: a step that is a Get leaves the store as it was, and the store changes
\* only in a Set or a Sync: an expired entry stays until one of them.
C4_GetLeavesStore ==
    [][/\ ret'.op = "Get" => entries' = entries
       /\ entries' # entries => ret'.op \in {"Set", "Sync"}]_vars

\* C4 witness: a Get has just missed on an expired entry that is still stored
C4_Witness ==
    /\ ret.op = "Get"
    /\ ~ ret.found
    /\ RetKey \in DOMAIN entries
    /\ After(now, entries[RetKey].expiration)
    /\ entries[RetKey].value = lastSet[RetKey].value

\* C5: a Set leaves, under the normalized key, the entry (v, now + ttl),
\* whatever entry was there, live or expired; the last Set wins: a Get that
\* hits returns the value of the latest Set to the normalized key, and it
\* hits as long as the clock has not passed that Set's time + ttl.
C5_SetReplaces ==
    /\ ret.op = "Set" =>
          /\ RetKey \in DOMAIN entries
          /\ entries[RetKey] = Entry(ret.value, now + ttl)
    /\ (ret.op = "Get" /\ ret.found) =>
          /\ RetKey \in DOMAIN lastSet
          /\ ret.value = lastSet[RetKey].value
    /\ (ret.op = "Get" /\ RetKey \in DOMAIN lastSet /\ ~ ret.found) =>
          now > lastSet[RetKey].at + ttl

\* C5 witness: a Set has just replaced an entry that had another expiration,
\* which had already passed
C5_Witness ==
    /\ ret.op = "Set"
    /\ ret.prev # NoExpiration
    /\ ret.prev < now
    /\ entries[RetKey].expiration = now + ttl

----------------------------------------------------------------------------
(* sync.RWMutex, as Get / Set / Sync use it.  w is the goroutine inside     *)
(* Lock (0: none), announced says that a writer has made itself known to    *)
(* the readers, readers are the goroutines holding the read lock, waiting   *)
(* the readers that arrived behind an announced writer.                     *)

\* (an RLock that does not queue behind an announced writer)
MuRLockNoWait(m, t) == [m EXCEPT !.readers = m.readers \cup {t}]

\* c.mu.RLock(): enter unless a writer is announced, else queue behind it
MuRLock(m, t) ==
    IF m.announced
    THEN [m EXCEPT !.waiting = m.waiting \cup {t}]
    ELSE [m EXCEPT !.readers = m.readers \cup {t}]

\* c.mu.RUnlock()
MuRUnlock(m, t) == [m EXCEPT !.readers = m.readers \ {t}]

\* c.mu.Lock(), first half: one writer at a time announces itself
MuCanLock(m) == m.w = 0

MuLock(m, t) == [m EXCEPT !.w = t, !.announced = TRUE]

\* (a Lock that does not wait for the readers to leave)
MuAcquiredAtOnce(m, t) == m.w = t

\* c.mu.Lock(), second half: the writer proceeds once the readers have left
MuAcquired(m, t) == m.w = t /\ m.readers = {}

\* (an Unlock that leaves the queued readers asleep)
MuUnlockNoWake(m, t) == [m EXCEPT !.w = 0, !.announced = FALSE]

\* c.mu.Unlock(): the queued readers enter, the next writer may announce
MuUnlock(m, t) ==
    [w |-> 0, announced |-> FALSE, readers |-> m.readers \cup m.waiting,
     waiting |-> {}]

----------------------------------------------------------------------------
(* Goroutines calling Get / Set / Sync on one shared defaultCache:           *)
(* specification SpecConc.  A map assignment writes the entry field by       *)
(* field and a map read reads it field by field; only the lock makes them    *)
(* atomic.                                                                   *)

NumThreads == 3
Threads    == 1 .. NumThreads

\* the keys the goroutines use: "1" and 1, which share one normalized key
ConcKeys == { StrKey(<<49>>), IntKey(1) }

NoSeen == Entry(Zero, NoExpiration)

NoLoc == [key |-> <<>>, value |-> Zero, exp |-> NoExpiration, exists |-> FALSE,
          found |-> FALSE, seen |-> NoSeen, clean |-> FALSE]

GetPcs  == {"get_blocked", "get_read", "get_read2", "get_ret"}
SetPcs  == {"set_lock", "set_wait", "set_write", "set_write2", "set_ret"}
SyncPcs == {"sync_lock", "sync_wait", "sync_sweep", "sync_ret"}

\* the goroutines between RLock and RUnlock, and between Lock and Unlock
InRead(t)  == pc[t] \in {"get_read", "get_read2", "get_ret"}
InWrite(t) == pc[t] \in {"set_write", "set_write2", "set_ret",
                         "sync_sweep", "sync_ret"}

\* (a Set that leaves the value of an entry that is already there)
SetWriteValueIfAbsent(m, k, v) ==
    IF k \in DOMAIN m THEN m ELSE MapPut(m, k, Entry(v, 0))

\* c.entries[strKey] = entry{...}: the value field
SetWriteValue(m, k, v) ==
    MapPut(m, k, Entry(v, IF k \in DOMAIN m THEN m[k].expiration ELSE 0))

\* c.entries[strKey] = entry{...}: the expiration field
SetWriteExpiration(m, k, e) ==
    IF k \in DOMAIN m THEN [m EXCEPT ![k].expiration = e] ELSE m

ConcInit ==
    /\ now = 0
    /\ ttl = New(<<WithTTL(1)>>).ttl
    /\ keyFunc = New(<<WithTTL(1)>>).keyFunc
    /\ entries = NoEntries
    /\ ret = NoRet
    /\ lastSet = NoEntries
    /\ mu = IdleMu
    /\ pc = [t \in Threads |-> "idle"]
    /\ loc = [t \in Threads |-> NoLoc]
    /\ done = NoEntries
    /\ HeapIdle

ConcTick ==
    /\ now < MaxTime
    /\ now' = now + 1
    /\ UNCHANGED <<ttl, keyFunc, entries, seqVars, concVars, heapVars>>

\* Get, line 802: c.mu.RLock() (and strKey := c.keyFunc(key))
GetCall(t, k) ==
    LET strKey == ApplyKeyFunc(keyFunc, k)
        clean  == \A u \in Threads : ~ (pc[u] \in SetPcs /\ loc[u].key = strKey)
    IN  /\ pc[t] = "idle"
        /\ mu' = MuRLock(mu, t)
        /\ pc' = [pc EXCEPT ![t] = IF t \in mu'.readers THEN "get_read"
                                   ELSE "get_blocked"]
        /\ loc' = [loc EXCEPT ![t] =
                     [NoLoc EXCEPT
                        !.key = strKey,
                        !.seen = IF clean /\ strKey \in DOMAIN done
                                 THEN done[strKey] ELSE NoSeen,
                        !.clean = clean]]
        /\ UNCHANGED <<cacheVars, seqVars, done, heapVars>>

\* a reader queued behind a writer goes on when Unlock has let it in
GetWake(t) ==
    /\ pc[t] = "get_blocked"
    /\ t \in mu.readers
    /\ pc' = [pc EXCEPT ![t] = "get_read"]
    /\ UNCHANGED <<cacheVars, seqVars, mu, loc, done, heapVars>>

\* Get, line 806: val, exists := c.entries[strKey] (exists and val.value)
GetRead(t) ==
    LET k == loc[t].key
    IN  /\ pc[t] = "get_read"
        /\ IF k \in DOMAIN entries
           THEN /\ loc' = [loc EXCEPT ![t].exists = TRUE,
                                      ![t].value = entries[k].value]
                /\ pc' = [pc EXCEPT ![t] = "get_read2"]
           ELSE /\ loc' = loc
                /\ pc' = [pc EXCEPT ![t] = "get_ret"]
        /\ UNCHANGED <<cacheVars, seqVars, mu, done, heapVars>>

\* Get, lines 806-819: val.expiration, the test against time.Now(), the result
GetCheck(t) ==
    LET k == loc[t].key
        e == IF k \in DOMAIN entries THEN entries[k].expiration ELSE 0
    IN  /\ pc[t] = "get_read2"
        /\ loc' = [loc EXCEPT ![t].exp = e,
                              ![t].found = ~ After(now, e),
                              ![t].value = IF After(now, e) THEN Zero
                                           ELSE loc[t].value]
        /\ pc' = [pc EXCEPT ![t] = "get_ret"]
        /\ UNCHANGED <<cacheVars, seqVars, mu, done, heapVars>>

\* Get, line 803: the deferred c.mu.RUnlock()
GetReturn(t) ==
    /\ pc[t] = "get_ret"
    /\ mu' = MuRUnlock(mu, t)
    /\ pc' = [pc EXCEPT ![t] = "idle"]
    /\ loc' = [loc EXCEPT ![t] = NoLoc]
    /\ UNCHANGED <<cacheVars, seqVars, done, heapVars>>

\* a Get in progress on the key is no longer ordered after every Set to it
Unordered(l, strKey) ==
    [t \in Threads |->
        IF pc[t] \in GetPcs /\ l[t].key = strKey
        THEN [l[t] EXCEPT !.clean = FALSE, !.seen = NoSeen] ELSE l[t]]

\* Set, line 823: c.mu.Lock(), the writer announces itself (a Set that finds
\* another writer inside Lock has not got further than its call)
SetCall(t, k, v) ==
    LET strKey == ApplyKeyFunc(keyFunc, k)
    IN  /\ pc[t] = "idle"
        /\ MuCanLock(mu)
        /\ mu' = MuLock(mu, t)
        /\ pc' = [pc EXCEPT ![t] = "set_wait"]
        /\ loc' = [Unordered(loc, strKey) EXCEPT
                     ![t] = [NoLoc EXCEPT !.key = strKey, !.value = v]]
        /\ UNCHANGED <<cacheVars, seqVars, done, heapVars>>

\* Sync, line 841: c.mu.Lock(), the writer announces itself
SyncCall(t) ==
    /\ pc[t] = "idle"
    /\ MuCanLock(mu)
    /\ mu' = MuLock(mu, t)
    /\ pc' = [pc EXCEPT ![t] = "sync_wait"]
    /\ UNCHANGED <<cacheVars, seqVars, loc, done, heapVars>>

\* c.mu.Lock() returns
WriterAcquire(t) ==
    /\ pc[t] \in {"set_wait", "sync_wait"}
    /\ MuAcquired(mu, t)
    /\ pc' = [pc EXCEPT ![t] = IF pc[t] = "set_wait" THEN "set_write"
                               ELSE "sync_sweep"]
    /\ UNCHANGED <<cacheVars, seqVars, mu, loc, done, heapVars>>

\* Set, lines 827-830: time.Now().Add(c.ttl), and the value field is stored
SetWrite(t) ==
    /\ pc[t] = "set_write"
    /\ loc' = [loc EXCEPT ![t].exp = now + ttl]
    /\ entries' = SetWriteValue(entries, loc[t].key, loc[t].value)
    /\ pc' = [pc EXCEPT ![t] = "set_write2"]
    /\ UNCHANGED <<now, ttl, keyFunc, seqVars, mu, done, heapVars>>

\* Set, lines 827-830: the expiration field is stored
SetWrite2(t) ==
    /\ pc[t] = "set_write2"
    /\ entries' = SetWriteExpiration(entries, loc[t].key, loc[t].exp)
    /\ done' = MapPut(done, loc[t].key, Entry(loc[t].value, loc[t].exp))
    /\ pc' = [pc EXCEPT ![t] = "set_ret"]
    /\ UNCHANGED <<now, ttl, keyFunc, seqVars, mu, loc, heapVars>>

\* Sync, lines 844-849: the sweep
SyncSweep(t) ==
    /\ pc[t] = "sync_sweep"
    /\ entries' = CacheSync(entries, now)
    /\ pc' = [pc EXCEPT ![t] = "sync_ret"]
    /\ UNCHANGED <<now, ttl, keyFunc, seqVars, mu, loc, done, heapVars>>

\* Set line 824, Sync line 842: the deferred c.mu.Unlock()
WriterReturn(t) ==
    /\ pc[t] \in {"set_ret", "sync_ret"}
    /\ mu' = MuUnlock(mu, t)
    /\ pc' = [pc EXCEPT ![t] = "idle"]
    /\ loc' = [loc EXCEPT ![t] = NoLoc]
    /\ UNCHANGED <<cacheVars, seqVars, done, heapVars>>

ConcNext ==
    \/ ConcTick
    \/ \E t \in Threads, k \in ConcKeys : GetCall(t, k)
    \/ \E t \in Threads : GetWake(t)
    \/ \E t \in Threads : GetRead(t)
    \/ \E t \in Threads : GetCheck(t)
    \/ \E t \in Threads : GetReturn(t)
    \/ \E t \in Threads, k \in ConcKeys, v \in Values : SetCall(t, k, v)
    \/ \E t \in Threads : SyncCall(t)
    \/ \E t \in Threads : WriterAcquire(t)
    \/ \E t \in Threads : SetWrite(t)
    \/ \E t \in Threads : SetWrite2(t)
    \/ \E t \in Threads : SyncSweep(t)
    \/ \E t \in Threads : WriterReturn(t)

SpecConc == ConcInit /\ [][ConcNext]_vars

----------------------------------------------------------------------------
(* Properties of the goroutines *)

\* C8: a goroutine between Lock and Unlock (Set or Sync) is alone inside the
\* lock; Gets may be inside together, and a Get that waits in RLock waits
\* for a writer, never for another Get.
C8_ReadersWriterLock ==
    /\ \A t \in Threads :
          InWrite(t) => \A u \in Threads \ {t} : ~ InRead(u) /\ ~ InWrite(u)
    /\ \A t \in Threads :
          (pc[t] = "get_blocked" /\ t \notin mu.readers) =>
              \E u \in Threads : pc[u] \in SetPcs \cup SyncPcs

\* C8 witness: two Gets hold the read lock together while a writer, announced,
\* waits for them to leave
C8_Witness ==
    \E t, u, x \in Threads :
        /\ t # u
        /\ InRead(t)
        /\ InRead(u)
        /\ pc[x] \in {"set_wait", "sync_wait"}
        /\ mu.readers = {t, u}

\* C9: the (value, expiration) a Get has read and reports as found is the
\* pair one Set wrote, the latest Set to that key that has stored its entry.
C9_NoTornEntry ==
    \A t \in Threads :
        (pc[t] = "get_ret" /\ loc[t].found) =>
            /\ loc[t].key \in DOMAIN done
            /\ Entry(loc[t].value, loc[t].exp) = done[loc[t].key]

\* C9 witness: a Get reports an entry while another reader is inside and a
\* Set of another value to the same key waits for the lock
C9_Witness ==
    \E t, u, x \in Threads :
        /\ pc[t] = "get_ret"
        /\ loc[t].found
        /\ t # u
        /\ InRead(u)
        /\ pc[x] = "set_wait"
        /\ loc[x].key = loc[t].key
        /\ loc[x].value # loc[t].value

\* C10: when a Get decides its result, if a Set to the same normalized key
\* had returned before the Get was called, no other Set to that key was
\* running or started since, and the clock is before that Set's time + ttl,
\* then the result is that Set's value with found = true.
C10_SetObserved ==
    [][\A t \in Threads :
          (/\ pc[t] \in {"get_read", "get_read2"}
           /\ pc'[t] = "get_ret"
           /\ loc[t].clean
           /\ loc[t].seen # NoSeen
           /\ now < loc[t].seen.expiration)
              => (loc'[t].found /\ loc'[t].value = loc[t].seen.value)]_vars

\* C10 witness: a Get that was called after a Set had returned, and waited in
\* RLock behind a Sync, reports that Set's value
C10_Witness ==
    \E t, u \in Threads :
        /\ pc[t] = "get_ret"
        /\ loc[t].clean
        /\ loc[t].seen # NoSeen
        /\ loc[t].found
        /\ loc[t].value = loc[t].seen.value
        /\ now > 0
        /\ pc[u] = "get_blocked"

----------------------------------------------------------------------------
(* renderCache over a heap: specification SpecRender.  A slice               *)
(* []unstructured.Unstructured is a reference to a backing array (0 is the   *)
(* nil slice); each element holds a reference to its Object map (0 is a nil  *)
(* Object); the content of an Object is abstracted to its name.  The        *)
(* address of a map is <<x, i>>: allocated for element i of array x.  Arrays *)
(* and maps that nothing refers to any more are collected.                   *)

MaxHeld == 2        \* slices the caller holds at a time

NilSlice == 0
NilObj   == <<0, 0>>
NoName   == "-"

\* the names of the tests: SetName("modified") on an object named "test"
Names == {"test", "modified"}

\* the slices the caller builds, by the names of their objects
Shapes == { <<>>, <<"test">> }

\* the key of the tests
RenderKeys == { StrKey(<<49>>) }

\* what a slice holds, by value: the names of its elements in order
Content(a, o, h) ==
    IF h = NilSlice THEN [nil |-> TRUE, elems |-> <<>>]
    ELSE [nil |-> FALSE,
          elems |-> [i \in 1 .. Len(a[h]) |->
                        IF a[h][i] = NilObj THEN NoName ELSE o[a[h][i]]]]

\* the Object maps a slice refers to
ObjsOf(a, h) ==
    IF h = NilSlice THEN {} ELSE { a[h][i] : i \in 1 .. Len(a[h]) } \ {NilObj}

\* the allocator hands out addresses in two arenas: what the cache allocates
\* for the store, and what is allocated for the caller
StoreArena  == 0 - 1
CallerArena == 1

InUse(a, o, x) == x \in DOMAIN a \/ \E y \in DOMAIN o : y[1] = x

\* the first address of the arena that is not in use, neither by an array nor
\* by a map
Fresh(a, o, arena) ==
    arena * (CHOOSE n \in 1 .. (Cardinality(DOMAIN a) + Cardinality(DOMAIN o) + 1) :
                /\ ~ InUse(a, o, arena * n)
                /\ \A m \in 1 .. (n - 1) : InUse(a, o, arena * m))

\* a heap with one more cell
HeapPut(heap, x, c) == [y \in (DOMAIN heap) \cup {x} |-> IF y = x THEN c ELSE heap[y]]

\* (a copy of the slice that copies the element structs and shares their maps)
CloneSliceShallow(a, o, h, arena) ==
    [arrs |-> HeapPut(a, Fresh(a, o, arena), a[h]), objs |-> o,
     h |-> Fresh(a, o, arena)]

\* make([]unstructured.Unstructured, len) and result[i] = *obj.DeepCopy():
\* a new backing array whose elements refer to new maps with equal content
CloneSlice(a, o, h, arena) ==
    LET src  == a[h]
        x    == Fresh(a, o, arena)
        live == { i \in 1 .. Len(src) : src[i] # NilObj }
    IN  [arrs |-> HeapPut(a, x, [i \in 1 .. Len(src) |->
                                   IF src[i] = NilObj THEN NilObj ELSE <<x, i>>]),
         objs |-> [y \in (DOMAIN o) \cup { <<x, i>> : i \in live } |->
                     IF y \in DOMAIN o THEN o[y] ELSE o[src[y[2]]]],
         h |-> x]

\* (a Get that copies the slice but not the Objects of its elements)
RenderGetShallow(m, a, o, f, k, t) ==
    IF ~ CacheGet(m, f, k, t).found \/ CacheGet(m, f, k, t).value = NilSlice
    THEN [found |-> CacheGet(m, f, k, t).found, value |-> NilSlice,
          arrs |-> a, objs |-> o]
    ELSE [found |-> TRUE,
          value |-> CloneSliceShallow(a, o, CacheGet(m, f, k, t).value, CallerArena).h,
          arrs |-> CloneSliceShallow(a, o, CacheGet(m, f, k, t).value, CallerArena).arrs,
          objs |-> o]

\* (a Get that returns nil for a stored slice without elements)
RenderGetEmptyAsNil(m, a, o, f, k, t) ==
    LET r == CacheGet(m, f, k, t)
    IN  IF ~ r.found
        THEN [found |-> FALSE, value |-> NilSlice, arrs |-> a, objs |-> o]
        ELSE IF r.value = NilSlice \/ a[r.value] = <<>>
        THEN [found |-> TRUE, value |-> NilSlice, arrs |-> a, objs |-> o]
        ELSE LET c == CloneSlice(a, o, r.value, CallerArena)
             IN  [found |-> TRUE, value |-> c.h, arrs |-> c.arrs, objs |-> c.objs]

\* renderCache.Get on an initialized wrapper: (value, found) and the heap
RenderGet(m, a, o, f, k, t) ==
    LET r == CacheGet(m, f, k, t)
    IN  IF ~ r.found
        THEN [found |-> FALSE, value |-> NilSlice, arrs |-> a, objs |-> o]
        ELSE IF r.value = NilSlice
        THEN [found |-> TRUE, value |-> NilSlice, arrs |-> a, objs |-> o]
        ELSE LET c == CloneSlice(a, o, r.value, CallerArena)
             IN  [found |-> TRUE, value |-> c.h, arrs |-> c.arrs, objs |-> c.objs]

\* (a Set that stores the caller's slice itself)
RenderSetNoClone(m, a, o, f, d, k, h, t) ==
    [entries |-> CacheSet(m, f, d, k, h, t), arrs |-> a, objs |-> o]

\* (a Set without the test for nil: make([]T, len(nil)) is an empty slice)
RenderSetNilAsEmpty(m, a, o, f, d, k, h, t) ==
    IF h = NilSlice
    THEN [entries |-> CacheSet(m, f, d, k, Fresh(a, o, StoreArena), t),
          arrs |-> HeapPut(a, Fresh(a, o, StoreArena), <<>>), objs |-> o]
    ELSE LET c == CloneSlice(a, o, h, StoreArena)
         IN  [entries |-> CacheSet(m, f, d, k, c.h, t),
              arrs |-> c.arrs, objs |-> c.objs]

\* renderCache.Set on an initialized wrapper: the store and the heap
RenderSet(m, a, o, f, d, k, h, t) ==
    IF h = NilSlice
    THEN [entries |-> CacheSet(m, f, d, k, NilSlice, t), arrs |-> a, objs |-> o]
    ELSE LET c == CloneSlice(a, o, h, StoreArena)
         IN  [entries |-> CacheSet(m, f, d, k, c.h, t),
              arrs |-> c.arrs, objs |-> c.objs]

\* the arrays the store and the caller refer to
Roots(m, hs) == ({ m[key].value : key \in DOMAIN m } \cup { hd.h : hd \in hs })
                   \ {NilSlice}

\* the garbage collector: the arrays of the roots
LiveArrs(a, roots) == [x \in (DOMAIN a) \cap roots |-> a[x]]

\* the garbage collector: the maps the live arrays refer to
LiveObjs(a, o, roots) ==
    [y \in (DOMAIN o) \cap UNION { ObjsOf(a, x) : x \in (DOMAIN a) \cap roots } |-> o[y]]

\* a slice the caller holds, and whether a Get returned it
Handle(h) == [h |-> h, got |-> FALSE]

NoStored == [content |-> [nil |-> TRUE, elems |-> <<>>], from |-> NilSlice]

RenderInit ==
    /\ now = 0
    /\ ttl = New(<<WithTTL(1)>>).ttl
    /\ keyFunc = New(<<WithTTL(1)>>).keyFunc
    /\ entries = NoEntries
    /\ ret = NoRet
    /\ lastSet = NoEntries
    /\ ConcIdle
    /\ arrs = <<>>
    /\ objs = <<>>
    /\ held = {}
    /\ stored = NoEntries
    /\ wrapper = "ready"
    /\ call = NoCall
    /\ plain = NoEntries
    /\ cells = <<>>

RenderTick ==
    /\ now < MaxTime
    /\ now' = now + 1
    /\ ret' = NoRet
    /\ UNCHANGED <<ttl, keyFunc, entries, lastSet, concVars, heapVars>>

\* the caller builds a slice of objects of its own
CallerMake(names) ==
    LET x == Fresh(arrs, objs, CallerArena)
    IN  /\ Cardinality(held) < MaxHeld
        /\ arrs' = HeapPut(arrs, x, [i \in 1 .. Len(names) |-> <<x, i>>])
        /\ objs' = [y \in (DOMAIN objs) \cup { <<x, i>> : i \in 1 .. Len(names) } |->
                      IF y \in DOMAIN objs THEN objs[y] ELSE names[y[2]]]
        /\ held' = held \cup {Handle(x)}
        /\ ret' = NoRet
        /\ UNCHANGED <<cacheVars, lastSet, concVars, envVars, stored>>

\* the caller lets go of a slice
CallerDrop(hd) ==
    /\ hd \in held
    /\ held' = held \ {hd}
    /\ arrs' = LiveArrs(arrs, Roots(entries, held'))
    /\ objs' = LiveObjs(arrs, objs, Roots(entries, held'))
    /\ stored' = [key \in DOMAIN stored |->
                    IF stored[key].from = hd.h /\ hd.h \notin DOMAIN arrs'
                    THEN [stored[key] EXCEPT !.from = NilSlice] ELSE stored[key]]
    /\ ret' = NoRet
    /\ UNCHANGED <<cacheVars, lastSet, concVars, envVars>>

\* the caller changes an object through a slice it holds: cached[i].SetName(n)
CallerSetName(hd, i, n) ==
    /\ hd \in held
    /\ i \in 1 .. Len(arrs[hd.h])
    /\ arrs[hd.h][i] # NilObj
    /\ objs[arrs[hd.h][i]] # n
    /\ objs' = [objs EXCEPT ![arrs[hd.h][i]] = n]
    /\ ret' = [NoRet EXCEPT !.op = "Mutate", !.value = hd.h]
    /\ UNCHANGED <<cacheVars, lastSet, concVars, envVars, arrs, held, stored>>

\* the caller overwrites an element of a slice it holds:
\* cached[i] = unstructured.Unstructured{}
CallerSetElem(hd, i) ==
    /\ hd \in held
    /\ i \in 1 .. Len(arrs[hd.h])
    /\ arrs[hd.h][i] # NilObj
    /\ arrs' = [arrs EXCEPT ![hd.h][i] = NilObj]
    /\ objs' = LiveObjs(arrs', objs, Roots(entries, held))
    /\ ret' = [NoRet EXCEPT !.op = "Mutate", !.value = hd.h]
    /\ UNCHANGED <<cacheVars, lastSet, concVars, envVars, held, stored>>

RGet(k) ==
    LET r == RenderGet(entries, arrs, objs, keyFunc, k, now)
    IN  /\ Cardinality(held) < MaxHeld
        /\ arrs' = r.arrs
        /\ objs' = r.objs
        /\ held' = IF r.found /\ r.value # NilSlice
                   THEN { hd \in held : hd.h # r.value }
                          \cup {[h |-> r.value, got |-> TRUE]}
                   ELSE held
        /\ ret' = [NoRet EXCEPT !.op = "Get", !.key = k, !.value = r.value,
                                !.found = r.found]
        /\ UNCHANGED <<cacheVars, lastSet, concVars, envVars, stored>>

\* Set with a slice the caller holds.  The slice the entry held before is
\* garbage once the entry is overwritten; it is collected before Set
\* allocates, so that its address can be used again.
RSet(k, hd) ==
    LET rest == Roots(MapDelete(entries, {ApplyKeyFunc(keyFunc, k)}), held)
        r    == RenderSet(entries, LiveArrs(arrs, rest), LiveObjs(arrs, objs, rest),
                          keyFunc, ttl, k, hd.h, now)
    IN  /\ hd \in held
        /\ entries' = r.entries
        /\ arrs' = r.arrs
        /\ objs' = r.objs
        /\ stored' = MapPut(stored, ApplyKeyFunc(keyFunc, k),
                            [content |-> Content(arrs, objs, hd.h), from |-> hd.h])
        /\ ret' = [NoRet EXCEPT !.op = "Set", !.key = k, !.value = hd.h]
        /\ UNCHANGED <<now, ttl, keyFunc, lastSet, concVars, envVars, held>>

\* Set with the nil slice
RSetNil(k) ==
    LET r == RenderSet(entries, arrs, objs, keyFunc, ttl, k, NilSlice, now)
    IN  /\ entries' = r.entries
        /\ arrs' = LiveArrs(r.arrs, Roots(entries', held))
        /\ objs' = LiveObjs(r.arrs, r.objs, Roots(entries', held))
        /\ stored' = MapPut(stored, ApplyKeyFunc(keyFunc, k), NoStored)
        /\ ret' = [NoRet EXCEPT !.op = "Set", !.key = k, !.value = NilSlice]
        /\ UNCHANGED <<now, ttl, keyFunc, lastSet, concVars, envVars, held>>

\* renderCache.Sync: r.cache.Sync()
RSync ==
    /\ entries' = CacheSync(entries, now)
    /\ arrs' = LiveArrs(arrs, Roots(entries', held))
    /\ objs' = LiveObjs(arrs, objs, Roots(entries', held))
    /\ ret' = [NoRet EXCEPT !.op = "Sync"]
    /\ UNCHANGED <<now, ttl, keyFunc, lastSet, concVars, envVars, held, stored>>

RenderNext ==
    \/ RenderTick
    \/ \E names \in Shapes : CallerMake(names)
    \/ \E hd \in held : CallerDrop(hd)
    \/ \E hd \in held : \E i \in DOMAIN arrs[hd.h], n \in Names : CallerSetName(hd, i, n)
    \/ \E hd \in held : \E i \in DOMAIN arrs[hd.h] : CallerSetElem(hd, i)
    \/ \E k \in RenderKeys : RGet(k)
    \/ \E k \in RenderKeys, hd \in held : RSet(k, hd)
    \/ \E k \in RenderKeys : RSetNil(k)
    \/ RSync

SpecRender == RenderInit /\ [][RenderNext]_vars

\* C6: a change made through the slice a render-cache Get returned (an element
\* overwritten, or an element's Object changed) leaves the content of every
\* stored slice and of every other slice the caller holds (the results of
\* other Gets among them) as it was; and a Get that hits returns a new backing
\* array whose elements refer to new Object maps, content-equal to the stored
\* slice.
C6_GetIsolation ==
    [][ /\ (ret'.op = "Mutate" /\ \E hd \in held : hd.h = ret'.value /\ hd.got) =>
             /\ \A key \in DOMAIN entries :
                    Content(arrs', objs', entries[key].value)
                        = Content(arrs, objs, entries[key].value)
             /\ \A hd \in held :
                    hd.h # ret'.value =>
                        Content(arrs', objs', hd.h) = Content(arrs, objs, hd.h)
        /\ (ret'.op = "Get" /\ ret'.found /\ ret'.value # NilSlice) =>
             /\ ret'.value \notin DOMAIN arrs
             /\ ObjsOf(arrs', ret'.value) \cap DOMAIN objs = {}
             /\ Content(arrs', objs', ret'.value)
                    = Content(arrs, objs, entries[ApplyKeyFunc(keyFunc, ret'.key)].value)
      ]_vars

\* the caller has changed one result of Get while it holds another result of
\* Get for the same stored slice, and the two now differ
C6_Witness ==
    /\ ret.op = "Mutate"
    /\ DOMAIN entries # {}
    /\ \E hd \in held, other \in held :
          /\ hd.h = ret.value /\ hd.got
          /\ other.got
          /\ Content(arrs, objs, hd.h) # Content(arrs, objs, other.h)
          /\ \A key \in DOMAIN entries :
                Content(arrs, objs, entries[key].value) = Content(arrs, objs, other.h)

\* C7: what a render-cache Get returns is content-equal to the slice the
\* latest Set of that key was given, as that slice was when Set was called,
\* whatever the caller has done to its slice or to its elements since.
C7_SetIsolation ==
    (ret.op = "Get" /\ ret.found) =>
        Content(arrs, objs, ret.value) = stored[RetKey].content

\* a Get hits after the caller changed the slice it had given to Set
C7_Witness ==
    /\ ret.op = "Get"
    /\ ret.found
    /\ \E hd \in held :
          /\ hd.h = stored[RetKey].from
          /\ Content(arrs, objs, hd.h) # stored[RetKey].content

----------------------------------------------------------------------------
(* Goroutines under a fair scheduler: specification SpecLive.  Here a Set or *)
(* a Sync that finds another writer inside Lock is shown waiting for it      *)
(* ("set_lock", "sync_lock"), so that every wait of a call is a state.  The  *)
(* clock plays no part in the locking and stands still.                      *)

\* Set is called: line 823, c.mu.Lock() begins
SetInvoke(t, k, v) ==
    LET strKey == ApplyKeyFunc(keyFunc, k)
    IN  /\ pc[t] = "idle"
        /\ pc' = [pc EXCEPT ![t] = "set_lock"]
        /\ loc' = [Unordered(loc, strKey) EXCEPT
                     ![t] = [NoLoc EXCEPT !.key = strKey, !.value = v]]
        /\ UNCHANGED <<cacheVars, seqVars, mu, done, heapVars>>

\* Sync is called: line 841, c.mu.Lock() begins
SyncInvoke(t) ==
    /\ pc[t] = "idle"
    /\ pc' = [pc EXCEPT ![t] = "sync_lock"]
    /\ UNCHANGED <<cacheVars, seqVars, mu, loc, done, heapVars>>

\* c.mu.Lock(): the writer has the writers' mutex and announces itself
WriterEnter(t) ==
    /\ pc[t] \in {"set_lock", "sync_lock"}
    /\ MuCanLock(mu)
    /\ mu' = MuLock(mu, t)
    /\ pc' = [pc EXCEPT ![t] = IF pc[t] = "set_lock" THEN "set_wait"
                               ELSE "sync_wait"]
    /\ UNCHANGED <<cacheVars, seqVars, loc, done, heapVars>>

LiveNext ==
    \/ \E t \in Threads, k \in ConcKeys : GetCall(t, k)
    \/ \E t \in Threads : GetWake(t)
    \/ \E t \in Threads : GetRead(t)
    \/ \E t \in Threads : GetCheck(t)
    \/ \E t \in Threads : GetReturn(t)
    \/ \E t \in Threads, k \in ConcKeys, v \in Values : SetInvoke(t, k, v)
    \/ \E t \in Threads : SyncInvoke(t)
    \/ \E t \in Threads : WriterEnter(t)
    \/ \E t \in Threads : WriterAcquire(t)
    \/ \E t \in Threads : SetWrite(t)
    \/ \E t \in Threads : SetWrite2(t)
    \/ \E t \in Threads : SyncSweep(t)
    \/ \E t \in Threads : WriterReturn(t)

\* the scheduler runs every goroutine that can run; the writers' mutex hands
\* itself to a goroutine that keeps waiting for it (sync.Mutex starvation mode)
LiveFair ==
    \A t \in Threads :
        /\ WF_vars(GetWake(t))
        /\ WF_vars(GetRead(t))
        /\ WF_vars(GetCheck(t))
        /\ WF_vars(GetReturn(t))
        /\ SF_vars(WriterEnter(t))
        /\ WF_vars(WriterAcquire(t))
        /\ WF_vars(SetWrite(t))
        /\ WF_vars(SetWrite2(t))
        /\ WF_vars(SyncSweep(t))
        /\ WF_vars(WriterReturn(t))

SpecLive == ConcInit /\ [][LiveNext]_vars /\ LiveFair

\* C11: under a fair scheduler every Get, Set and Sync that was called
\* returns, whatever the other goroutines call meanwhile, and a goroutine that
\* has returned holds neither the read lock nor the write lock.
C11_EveryCallReturns ==
    /\ \A t \in Threads : (pc[t] # "idle") ~> (pc[t] = "idle")
    /\ [](\A t \in Threads :
             pc[t] = "idle" =>
                 t \notin mu.readers /\ t \notin mu.waiting /\ mu.w # t)

\* C11 witness: a Set waits for the writers' mutex and a Get waits in RLock
\* while a third goroutine is between Lock and Unlock
C11_Witness ==
    \E t, u, x \in Threads :
        /\ pc[t] \in {"set_lock", "sync_lock"}
        /\ pc[u] = "get_blocked"
        /\ InWrite(x)

----------------------------------------------------------------------------
(* Further properties of the sequential client (specification Spec) *)

\* C12: once the clock is past the expiresAt of the latest Set to a key, a
\* Get of the key returns (zero, false); and a Sync that finds entries whose
\* expiresAt the clock has passed removes each of them, so that the number of
\* stored entries strictly decreases.
C12_ExpiredThenSwept ==
    [][/\ (/\ ret'.op = "Get"
           /\ ApplyKeyFunc(keyFunc, ret'.key) \in DOMAIN lastSet
           /\ now > lastSet[ApplyKeyFunc(keyFunc, ret'.key)].at + ttl)
              => (~ ret'.found /\ ret'.value = Zero)
       /\ ret'.op = "Sync" =>
              \A key \in DOMAIN entries :
                  now > entries[key].expiration =>
                      /\ key \notin DOMAIN entries'
                      /\ Cardinality(DOMAIN entries') < Cardinality(DOMAIN entries)]_vars

\* C12 witness: a Sync has removed the entries of two keys, both set and both
\* expired since
C12_Witness ==
    /\ ret.op = "Sync"
    /\ Cardinality(DOMAIN lastSet) = 2
    /\ entries = NoEntries
    /\ \A key \in DOMAIN lastSet : now > lastSet[key].at + ttl

----------------------------------------------------------------------------
(* Further properties of renderCache (specification SpecRender) *)

\* C13: Set(k, nil) stores nil, not an empty slice, and a Get of it returns
\* (nil, true); Set of an empty slice that is not nil stores an empty slice
\* that is not nil, and a Get of it returns one with found = true; a Get of a
\* key that is not stored or whose entry has expired returns (nil, false).
C13_NilIsNotMiss ==
    /\ (ret.op = "Set" /\ ret.value = NilSlice) =>
          entries[RetKey].value = NilSlice
    /\ (ret.op = "Set" /\ ret.value # NilSlice /\ arrs[ret.value] = <<>>) =>
          /\ entries[RetKey].value # NilSlice
          /\ arrs[entries[RetKey].value] = <<>>
    /\ (/\ ret.op = "Get"
        /\ \/ RetKey \notin DOMAIN entries
           \/ now > entries[RetKey].expiration) =>
          (~ ret.found /\ ret.value = NilSlice)
    /\ (/\ ret.op = "Get"
        /\ RetKey \in DOMAIN entries
        /\ now <= entries[RetKey].expiration) =>
          /\ ret.found
          /\ (ret.value = NilSlice) = (entries[RetKey].value = NilSlice)
          /\ (ret.value = NilSlice) = stored[RetKey].content.nil
          /\ stored[RetKey].content.elems = <<>> =>
                (ret.value = NilSlice \/ arrs[ret.value] = <<>>)

\* C13 witness: a Get returns (nil, true) for a key whose latest Set stored
\* nil, while the caller holds an empty slice that an earlier Get returned
C13_Witness ==
    /\ ret.op = "Get"
    /\ ret.found
    /\ ret.value = NilSlice
    /\ entries[RetKey].value = NilSlice
    /\ \E hd \in held : hd.got /\ arrs[hd.h] = <<>>

----------------------------------------------------------------------------
(* renderCache with its receiver: a *renderCache that is nil, or whose cache *)
(* field is nil, or that NewRenderCache built.  Specification SpecNil has    *)
(* the caller use a wrapper of the first two kinds; ttl, keyFunc and entries *)
(* then belong to no cache and stay as they are.                             *)

\* r == nil || r.cache == nil
Uninitialized(w) == w = "nil" \/ w = "nocache"

\* (a Get without the guard: r.cache.Get through a nil r or a nil cache panics)
WrapperGetNoGuard(w, m, a, o, f, k, t) ==
    IF Uninitialized(w)
    THEN [panics |-> TRUE, found |-> FALSE, value |-> NilSlice, arrs |-> a, objs |-> o]
    ELSE [panics |-> FALSE,
          found |-> RenderGet(m, a, o, f, k, t).found,
          value |-> RenderGet(m, a, o, f, k, t).value,
          arrs |-> RenderGet(m, a, o, f, k, t).arrs,
          objs |-> RenderGet(m, a, o, f, k, t).objs]

\* renderCache.Get
WrapperGet(w, m, a, o, f, k, t) ==
    IF Uninitialized(w)
    THEN [panics |-> FALSE, found |-> FALSE, value |-> NilSlice, arrs |-> a, objs |-> o]
    ELSE [panics |-> FALSE,
          found |-> RenderGet(m, a, o, f, k, t).found,
          value |-> RenderGet(m, a, o, f, k, t).value,
          arrs |-> RenderGet(m, a, o, f, k, t).arrs,
          objs |-> RenderGet(m, a, o, f, k, t).objs]

\* renderCache.Set
WrapperSet(w, m, a, o, f, d, k, h, t) ==
    IF Uninitialized(w)
    THEN [panics |-> FALSE, entries |-> m, arrs |-> a, objs |-> o]
    ELSE [panics |-> FALSE,
          entries |-> RenderSet(m, a, o, f, d, k, h, t).entries,
          arrs |-> RenderSet(m, a, o, f, d, k, h, t).arrs,
          objs |-> RenderSet(m, a, o, f, d, k, h, t).objs]

\* renderCache.Sync
WrapperSync(w, m, t) ==
    IF Uninitialized(w) THEN [panics |-> FALSE, entries |-> m]
    ELSE [panics |-> FALSE, entries |-> CacheSync(m, t)]

\* what ret says of a call: its name, or that it panicked
Outcome(op, panics) == IF panics THEN "panic" ELSE op

NilInit ==
    /\ now = 0
    /\ ttl = New(<<>>).ttl
    /\ keyFunc = New(<<>>).keyFunc
    /\ entries = NoEntries
    /\ ret = NoRet
    /\ lastSet = NoEntries
    /\ ConcIdle
    /\ arrs = <<>>
    /\ objs = <<>>
    /\ held = {}
    /\ stored = NoEntries
    /\ wrapper \in {"nil", "nocache"}
    /\ call = NoCall
    /\ plain = NoEntries
    /\ cells = <<>>

WGet(k) ==
    LET r == WrapperGet(wrapper, entries, arrs, objs, keyFunc, k, now)
    IN  /\ Uninitialized(wrapper) \/ Cardinality(held) < MaxHeld
        /\ arrs' = r.arrs
        /\ objs' = r.objs
        /\ held' = IF r.found /\ r.value # NilSlice
                   THEN { hd \in held : hd.h # r.value }
                          \cup {[h |-> r.value, got |-> TRUE]}
                   ELSE held
        /\ ret' = [NoRet EXCEPT !.op = Outcome("Get", r.panics), !.key = k,
                                !.value = r.value, !.found = r.found]
        /\ UNCHANGED <<cacheVars, lastSet, concVars, envVars, stored>>

WSet(k, hd) ==
    LET rest == Roots(MapDelete(entries, {ApplyKeyFunc(keyFunc, k)}), held)
        r    == WrapperSet(wrapper, entries, LiveArrs(arrs, rest),
                           LiveObjs(arrs, objs, rest), keyFunc, ttl, k, hd.h, now)
    IN  /\ hd \in held
        /\ entries' = r.entries
        /\ arrs' = r.arrs
        /\ objs' = r.objs
        /\ stored' = IF Uninitialized(wrapper) THEN stored
                     ELSE MapPut(stored, ApplyKeyFunc(keyFunc, k),
                                 [content |-> Content(arrs, objs, hd.h),
                                  from |-> hd.h])
        /\ ret' = [NoRet EXCEPT !.op = Outcome("Set", r.panics), !.key = k,
                                !.value = hd.h]
        /\ UNCHANGED <<now, ttl, keyFunc, lastSet, concVars, envVars, held>>

WSetNil(k) ==
    LET r == WrapperSet(wrapper, entries, arrs, objs, keyFunc, ttl, k, NilSlice, now)
    IN  /\ entries' = r.entries
        /\ arrs' = LiveArrs(r.arrs, Roots(entries', held))
        /\ objs' = LiveObjs(r.arrs, r.objs, Roots(entries', held))
        /\ stored' = IF Uninitialized(wrapper) THEN stored
                     ELSE MapPut(stored, ApplyKeyFunc(keyFunc, k), NoStored)
        /\ ret' = [NoRet EXCEPT !.op = Outcome("Set", r.panics), !.key = k,
                                !.value = NilSlice]
        /\ UNCHANGED <<now, ttl, keyFunc, lastSet, concVars, envVars, held>>

WSync ==
    LET r == WrapperSync(wrapper, entries, now)
    IN  /\ entries' = r.entries
        /\ arrs' = LiveArrs(arrs, Roots(entries', held))
        /\ objs' = LiveObjs(arrs, objs, Roots(entries', held))
        /\ ret' = [NoRet EXCEPT !.op = Outcome("Sync", r.panics)]
        /\ UNCHANGED <<now, ttl, keyFunc, lastSet, concVars, envVars, held, stored>>

NilNext ==
    \/ RenderTick
    \/ \E names \in Shapes : CallerMake(names)
    \/ \E hd \in held : CallerDrop(hd)
    \/ \E hd \in held : \E i \in DOMAIN arrs[hd.h], n \in Names : CallerSetName(hd, i, n)
    \/ \E hd \in held : \E i \in DOMAIN arrs[hd.h] : CallerSetElem(hd, i)
    \/ \E k \in RenderKeys : WGet(k)
    \/ \E k \in RenderKeys, hd \in held : WSet(k, hd)
    \/ \E k \in RenderKeys : WSetNil(k)
    \/ WSync

SpecNil == NilInit /\ [][NilNext]_vars

\* C14: on a renderCache that is nil or whose cache is nil, no call of Get,
\* Set or Sync panics, in whatever order they come; Get returns (nil, false)
\* for every key; and Get, Set and Sync leave the store, the heap, the
\* caller's slices and the wrapper as they were.
C14_NilReceiverSafe ==
    [][Uninitialized(wrapper) =>
          /\ ret'.op # "panic"
          /\ ret'.op = "Get" => (~ ret'.found /\ ret'.value = NilSlice)
          /\ ret'.op \in {"Get", "Set", "Sync"} =>
                /\ entries' = entries
                /\ entries' = NoEntries
                /\ arrs' = arrs
                /\ objs' = objs
                /\ held' = held
                /\ wrapper' = wrapper]_vars

\* C14 witness: a Get on a wrapper without a cache has returned, at a later
\* time, while the caller holds the slice it built for a Set
C14_Witness ==
    /\ wrapper = "nocache"
    /\ ret.op = "Get"
    /\ ~ ret.found
    /\ now > 0
    /\ \E hd \in held : arrs[hd.h] # <<>>

----------------------------------------------------------------------------
(* New as a function of its option list: specification SpecNew.  The state   *)
(* before the call has no cache; the call leaves the cache New returns.      *)

NewInit ==
    /\ now = 0
    /\ ttl = 0
    /\ keyFunc = "nil"
    /\ entries = NoEntries
    /\ ret = NoRet
    /\ lastSet = NoEntries
    /\ ConcIdle
    /\ arrs = <<>>
    /\ objs = <<>>
    /\ held = {}
    /\ stored = NoEntries
    /\ wrapper = "ready"
    /\ \E opts \in OptionLists(MaxOpts) :
          call = [fn |-> "New", in |-> opts, out |-> "pending"]
    /\ plain = NoEntries
    /\ cells = <<>>

\* c := cache.New[T](opts...)
NewCache ==
    /\ call.fn = "New"
    /\ call.out = "pending"
    /\ ttl' = New(call.in).ttl
    /\ keyFunc' = New(call.in).keyFunc
    /\ entries' = NoEntries
    /\ call' = [call EXCEPT !.out = "done"]
    /\ UNCHANGED <<now, seqVars, concVars, arrs, objs, held, stored, wrapper, plain, cells>>

NewNext == NewCache

SpecNew == NewInit /\ [][NewNext]_vars

\* the TTL an option list asks for, read from its end: WithTTL asks for its
\* argument whatever it is, a struct Options asks for its TTL field when that
\* is set to a positive duration; 0 when no option asks for one
RECURSIVE RequestedTTL(_)
RequestedTTL(opts) ==
    IF opts = <<>> THEN 0
    ELSE LET last == opts[Len(opts)]
         IN  IF last.opt = "WithTTL" \/ (last.opt = "Options" /\ last.TTL > 0)
             THEN last.TTL
             ELSE RequestedTTL(SubSeq(opts, 1, Len(opts) - 1))

\* the key function an option list asks for, read from its end; "nil" when
\* none asks for one
RECURSIVE RequestedKeyFunc(_)
RequestedKeyFunc(opts) ==
    IF opts = <<>> THEN "nil"
    ELSE LET last == opts[Len(opts)]
         IN  IF last.opt = "WithKeyFunc" \/ (last.opt = "Options" /\ last.KeyFunc # "nil")
             THEN last.KeyFunc
             ELSE RequestedKeyFunc(SubSeq(opts, 1, Len(opts) - 1))

----------------------------------------------------------------------------
(* Keys of the sequential client (specification Spec) *)

\* C16: when Set(k2, b) follows Set(k1, a) for two different keys that the
\* configured key function maps to the same string, the store has no more
\* entries than before and Get(k1) and Get(k2) both return (b, true); and a
\* Get through a key other than the one the latest Set used, within the ttl of
\* that Set, returns that Set's value.
C16_AliasedKeysShareEntry ==
    [][/\ (/\ ret.op = "Set"
           /\ ret'.op = "Set"
           /\ ret'.key # ret.key
           /\ ApplyKeyFunc(keyFunc, ret'.key) = ApplyKeyFunc(keyFunc, ret.key))
              => /\ DOMAIN entries' = DOMAIN entries
                 /\ \A k \in {ret.key, ret'.key} :
                       CacheGet(entries', keyFunc, k, now')
                           = [value |-> ret'.value, found |-> TRUE]
       /\ (/\ ret'.op = "Get"
           /\ ApplyKeyFunc(keyFunc, ret'.key) \in DOMAIN lastSet
           /\ lastSet[ApplyKeyFunc(keyFunc, ret'.key)].key # ret'.key
           /\ now <= lastSet[ApplyKeyFunc(keyFunc, ret'.key)].at + ttl)
              => /\ ret'.found
                 /\ ret'.value = lastSet[ApplyKeyFunc(keyFunc, ret'.key)].value]_vars

\* C16 witness: under the custom key function, a Get with one customSpec
\* returns the value that the latest Set stored with another customSpec of the
\* same Path, the only entry in the store
C16_Witness ==
    /\ keyFunc = "custom"
    /\ ret.op = "Get"
    /\ ret.found
    /\ ret.key.kind = "customSpec"
    /\ lastSet[RetKey].key.kind = "customSpec"
    /\ lastSet[RetKey].key # ret.key
    /\ ret.value = lastSet[RetKey].value
    /\ Cardinality(DOMAIN entries) = 1

\* C17: a Set(k, v) changes the entry of the normalized key of k and nothing
\* else: every other entry keeps its value and its expiresAt, no key leaves
\* the store, no key but that of k enters it, and for every key k' with
\* another normalized key Get(k') returns what it returned before.
C17_SetTouchesOneKey ==
    [][ret'.op = "Set" =>
          LET strKey == ApplyKeyFunc(keyFunc, ret'.key)
          IN  /\ DOMAIN entries \subseteq DOMAIN entries'
              /\ DOMAIN entries' \subseteq (DOMAIN entries) \cup {strKey}
              /\ \A key \in (DOMAIN entries) \ {strKey} : entries'[key] = entries[key]
              /\ \A k \in Keys :
                    ApplyKeyFunc(keyFunc, k) # strKey =>
                        CacheGet(entries', keyFunc, k, now')
                            = CacheGet(entries, keyFunc, k, now)]_vars

\* C17 witness: a Set has just written its entry next to the entry of another
\* key, which holds another value and an earlier expiresAt
C17_Witness ==
    /\ ret.op = "Set"
    /\ \E key \in DOMAIN entries :
          /\ key # RetKey
          /\ entries[key].value # ret.value
          /\ entries[key].expiration < entries[RetKey].expiration

----------------------------------------------------------------------------
(* cache.New[[]unstructured.Unstructured] without the wrapper: specification *)
(* SpecPlain.  A value of T is a slice header; storing it or returning it    *)
(* copies the header, so the store, the caller's slice and the slice a Get   *)
(* returns refer to one backing array.  The clock stands still here: what   *)
(* is shared does not depend on it, and nothing expires.                     *)

\* (a Get that returns a deep copy, as the wrapper does)
PlainGetCloning(m, a, o, f, k, t) == RenderGet(m, a, o, f, k, t)

\* defaultCache.Get over the heap: return val.value, true; nothing is allocated
PlainGet(m, a, o, f, k, t) ==
    [found |-> CacheGet(m, f, k, t).found, value |-> CacheGet(m, f, k, t).value,
     arrs |-> a, objs |-> o]

PlainInit ==
    /\ now = 0
    /\ ttl = New(<<WithTTL(1)>>).ttl
    /\ keyFunc = New(<<WithTTL(1)>>).keyFunc
    /\ entries = NoEntries
    /\ ret = NoRet
    /\ lastSet = NoEntries
    /\ ConcIdle
    /\ arrs = <<>>
    /\ objs = <<>>
    /\ held = {}
    /\ stored = NoEntries
    /\ wrapper = "ready"
    /\ call = NoCall
    /\ plain = NoEntries
    /\ cells = <<>>

PGet(k) ==
    LET r == PlainGet(entries, arrs, objs, keyFunc, k, now)
    IN  /\ Cardinality(held) < MaxHeld
        /\ arrs' = r.arrs
        /\ objs' = r.objs
        /\ held' = IF r.found /\ r.value # NilSlice
                   THEN { hd \in held : hd.h # r.value }
                          \cup {[h |-> r.value, got |-> TRUE]}
                   ELSE held
        /\ ret' = [NoRet EXCEPT !.op = "Get", !.key = k, !.value = r.value,
                                !.found = r.found]
        /\ UNCHANGED <<cacheVars, lastSet, concVars, envVars, stored>>

\* Set with a slice the caller holds: the header is stored
PSet(k, hd) ==
    /\ hd \in held
    /\ entries' = CacheSet(entries, keyFunc, ttl, k, hd.h, now)
    /\ arrs' = LiveArrs(arrs, Roots(entries', held))
    /\ objs' = LiveObjs(arrs, objs, Roots(entries', held))
    /\ stored' = MapPut(stored, ApplyKeyFunc(keyFunc, k),
                        [content |-> Content(arrs, objs, hd.h), from |-> hd.h])
    /\ ret' = [NoRet EXCEPT !.op = "Set", !.key = k, !.value = hd.h]
    /\ UNCHANGED <<now, ttl, keyFunc, lastSet, concVars, envVars, held>>

PlainNext ==
    \/ \E names \in Shapes : CallerMake(names)
    \/ \E hd \in held : CallerDrop(hd)
    \/ \E hd \in held : \E i \in DOMAIN arrs[hd.h], n \in Names : CallerSetName(hd, i, n)
    \/ \E hd \in held : \E i \in DOMAIN arrs[hd.h] : CallerSetElem(hd, i)
    \/ \E k \in RenderKeys : PGet(k)
    \/ \E k \in RenderKeys, hd \in held : PSet(k, hd)

SpecPlain == PlainInit /\ [][PlainNext]_vars

\* C18: a Get of the plain cache that hits returns the stored slice itself,
\* not a copy; a change the caller makes through a slice that the store also
\* holds (an element overwritten, an element's Object changed) changes the
\* stored content, and what a Get of the key would then return is the changed
\* content.
C18_PlainCacheShares ==
    [][/\ (ret'.op = "Get" /\ ret'.found) =>
              /\ ret'.value = entries[ApplyKeyFunc(keyFunc, ret'.key)].value
              /\ arrs' = arrs
              /\ objs' = objs
       /\ ret'.op = "Mutate" =>
              \A key \in DOMAIN entries :
                  entries[key].value = ret'.value =>
                      /\ Content(arrs', objs', entries'[key].value)
                             # Content(arrs, objs, entries[key].value)
                      /\ \A k \in RenderKeys :
                            (/\ ApplyKeyFunc(keyFunc, k) = key
                             /\ PlainGet(entries', arrs', objs', keyFunc, k, now').found)
                               => LET r == PlainGet(entries', arrs', objs', keyFunc, k, now')
                                  IN  Content(r.arrs, r.objs, r.value)
                                          = Content(arrs', objs', ret'.value)]_vars

\* C18 witness: a Get returns content that differs from what was given to
\* Set, because the caller changed the slice an earlier Get had returned
C18_Witness ==
    /\ ret.op = "Get"
    /\ ret.found
    /\ ret.value # NilSlice
    /\ \E hd \in held : hd.h = ret.value /\ hd.got
    /\ Content(arrs, objs, ret.value) # stored[RetKey].content

----------------------------------------------------------------------------
(* renderCache next to a defaultCache: specification SpecRefine.  Every call *)
(* on the wrapper is also made on the cache plain, whose values are the      *)
(* contents of the slices as they were given to Set: values that nobody can  *)
(* change afterwards.                                                        *)

RefineInit ==
    /\ now = 0
    /\ ttl = New(<<WithTTL(1)>>).ttl
    /\ keyFunc = New(<<WithTTL(1)>>).keyFunc
    /\ entries = NoEntries
    /\ ret = NoRet
    /\ lastSet = NoEntries
    /\ ConcIdle
    /\ arrs = <<>>
    /\ objs = <<>>
    /\ held = {}
    /\ stored = NoEntries
    /\ wrapper = "ready"
    /\ call = NoCall
    /\ plain = NoEntries
    /\ cells = <<>>

\* Get on both; plain is left as it is, as Get leaves any defaultCache
XGet(k) ==
    LET r == RenderGet(entries, arrs, objs, keyFunc, k, now)
    IN  /\ Cardinality(held) < MaxHeld
        /\ arrs' = r.arrs
        /\ objs' = r.objs
        /\ held' = IF r.found /\ r.value # NilSlice
                   THEN { hd \in held : hd.h # r.value }
                          \cup {[h |-> r.value, got |-> TRUE]}
                   ELSE held
        /\ ret' = [NoRet EXCEPT !.op = "Get", !.key = k, !.value = r.value,
                                !.found = r.found]
        /\ plain' = CacheGetStore(plain, keyFunc, k, now)
        /\ UNCHANGED <<cacheVars, lastSet, concVars, wrapper, call, cells, stored>>

\* Set on both, with a slice the caller holds
XSet(k, hd) ==
    LET rest == Roots(MapDelete(entries, {ApplyKeyFunc(keyFunc, k)}), held)
        r    == RenderSet(entries, LiveArrs(arrs, rest), LiveObjs(arrs, objs, rest),
                          keyFunc, ttl, k, hd.h, now)
    IN  /\ hd \in held
        /\ entries' = r.entries
        /\ arrs' = r.arrs
        /\ objs' = r.objs
        /\ stored' = MapPut(stored, ApplyKeyFunc(keyFunc, k),
                            [content |-> Content(arrs, objs, hd.h), from |-> hd.h])
        /\ ret' = [NoRet EXCEPT !.op = "Set", !.key = k, !.value = hd.h]
        /\ plain' = CacheSet(plain, keyFunc, ttl, k, Content(arrs, objs, hd.h), now)
        /\ UNCHANGED <<now, ttl, keyFunc, lastSet, concVars, wrapper, call, cells, held>>

\* Set on both, with the nil slice
XSetNil(k) ==
    LET r == RenderSet(entries, arrs, objs, keyFunc, ttl, k, NilSlice, now)
    IN  /\ entries' = r.entries
        /\ arrs' = LiveArrs(r.arrs, Roots(entries', held))
        /\ objs' = LiveObjs(r.arrs, r.objs, Roots(entries', held))
        /\ stored' = MapPut(stored, ApplyKeyFunc(keyFunc, k), NoStored)
        /\ ret' = [NoRet EXCEPT !.op = "Set", !.key = k, !.value = NilSlice]
        /\ plain' = CacheSet(plain, keyFunc, ttl, k, Content(arrs, objs, NilSlice), now)
        /\ UNCHANGED <<now, ttl, keyFunc, lastSet, concVars, wrapper, call, cells, held>>

\* Sync on both
XSync ==
    /\ entries' = WrapperSync(wrapper, entries, now).entries
    /\ arrs' = LiveArrs(arrs, Roots(entries', held))
    /\ objs' = LiveObjs(arrs, objs, Roots(entries', held))
    /\ ret' = [NoRet EXCEPT !.op = "Sync"]
    /\ plain' = CacheSync(plain, now)
    /\ UNCHANGED <<now, ttl, keyFunc, lastSet, concVars, wrapper, call, cells, held, stored>>

RefineNext ==
    \/ RenderTick
    \/ \E names \in Shapes : CallerMake(names)
    \/ \E hd \in held : CallerDrop(hd)
    \/ \E hd \in held : \E i \in DOMAIN arrs[hd.h], n \in Names : CallerSetName(hd, i, n)
    \/ \E hd \in held : \E i \in DOMAIN arrs[hd.h] : CallerSetElem(hd, i)
    \/ \E k \in RenderKeys : XGet(k)
    \/ \E k \in RenderKeys, hd \in held : XSet(k, hd)
    \/ \E k \in RenderKeys : XSetNil(k)
    \/ XSync

SpecRefine == RefineInit /\ [][RefineNext]_vars

\* C19: whatever the caller does to the slices it holds, a Get on the wrapper
\* returns the found flag that Get on the plain cache returns, with nil on a
\* miss and a slice content-equal to the plain cache's value on a hit; Sync
\* on the wrapper does to its store what Sync does to a defaultCache and
\* removes the keys that Sync on the plain cache removes; and after every
\* step the two stores hold the same keys with the same expiresAt and
\* content-equal values.
C19_WrapperRefinesPlain ==
    [][/\ ret'.op = "Get" =>
              LET p == CacheGet(plain, keyFunc, ret'.key, now)
              IN  /\ ret'.found = p.found
                  /\ ~ p.found => ret'.value = NilSlice
                  /\ p.found => Content(arrs', objs', ret'.value) = p.value
       /\ ret'.op = "Sync" =>
              /\ entries' = CacheSync(entries, now)
              /\ DOMAIN entries' = DOMAIN plain'
       /\ DOMAIN entries' = DOMAIN plain'
       /\ \A key \in DOMAIN entries' :
              /\ entries'[key].expiration = plain'[key].expiration
              /\ Content(arrs', objs', entries'[key].value) = plain'[key].value]_vars

\* C19 witness: some time after the Set, a Get on the wrapper returns the
\* plain cache's value while the caller holds an earlier result of Get that
\* it has changed
C19_Witness ==
    /\ ret.op = "Get"
    /\ ret.found
    /\ now > 0
    /\ Content(arrs, objs, ret.value) = plain[RetKey].value
    /\ \E hd \in held :
          /\ hd.got
          /\ hd.h # ret.value
          /\ Content(arrs, objs, hd.h) # plain[RetKey].value

----------------------------------------------------------------------------
(* util/maps: DeepCloneMap, DeepCloneValue and DeepMerge on JSON-like trees. *)
(* A tree is a function from paths to node labels: the root is at <<>>, the  *)
(* value under key k of a map at path p is at p \o <<k>>, element i of a     *)
(* slice is at p \o <<"0">>, <<"1">>, ...  The labels are "nil" (a nil        *)
(* interface), "map" and "nilmap" (map[string]any), "anys" and "nilanys"     *)
(* ([]any), "typed" and "niltyped" ([]string, []int, []int64, []float64,     *)
(* []bool), "other" and "nilother" (any other slice type), and the scalars.  *)

MaxKeys == 2        \* keys a map may hold

KeyNames  == <<"a", "b", "c", "d">>
IndexNames == <<"0", "1", "2", "3">>
MergeKeys == { KeyNames[i] : i \in 1 .. MaxKeys }

Scalars == {"s1", "s2"}

\* a tree of one node
Leaf(label) == [p \in {<<>>} |-> label]

\* a node with children: ch maps keys (or indices) to trees
Mk(label, ch) ==
    [p \in {<<>>} \cup UNION { { <<k>> \o q : q \in DOMAIN ch[k] } : k \in DOMAIN ch } |->
        IF p = <<>> THEN label ELSE ch[Head(p)][Tail(p)]]

NoChildren == [k \in {} |-> Leaf("nil")]

NilMap   == Leaf("nilmap")
EmptyMap == Mk("map", NoChildren)

\* the label of the root, the keys (or indices) under the root, the subtree
\* under one of them
Label(t)    == t[<<>>]
KeysOf(t)   == { p[1] : p \in (DOMAIN t) \ {<<>>} }
Child(t, k) == [q \in { Tail(p) : p \in { p \in (DOMAIN t) \ {<<>>} : p[1] = k } } |->
                  t[<<k>> \o q]]

\* v.(map[string]any) succeeds: for a map and for a nil map, not for nil
IsMap(t) == Label(t) \in {"map", "nilmap"}

RECURSIVE DeepCloneValue(_)
RECURSIVE DeepCloneMap(_)
RECURSIVE DeepMerge(_, _)

\* DeepCloneMap: nil for nil, else a new map with every value cloned
DeepCloneMap(m) ==
    IF Label(m) = "nilmap" THEN NilMap
    ELSE Mk("map", [k \in KeysOf(m) |-> DeepCloneValue(Child(m, k))])

\* DeepCloneValue, by the dynamic type of v
DeepCloneValue(v) ==
    CASE Label(v) = "nil" -> v
      [] Label(v) \in {"map", "nilmap"} -> DeepCloneMap(v)
      [] Label(v) \in {"anys", "nilanys"} ->
            Mk("anys", [i \in KeysOf(v) |-> DeepCloneValue(Child(v, i))])
      [] Label(v) \in {"typed", "niltyped"} ->
            Mk("typed", [i \in KeysOf(v) |-> Child(v, i)])
      [] Label(v) \in {"other", "nilother"} ->
            Mk("other", [i \in KeysOf(v) |-> Child(v, i)])
      [] OTHER -> v

\* (a DeepMerge that returns nil when both maps are nil)
DeepMergeNilForNil(base, overlay) ==
    IF Label(base) = "nilmap" /\ Label(overlay) = "nilmap" THEN NilMap
    ELSE IF Label(base) = "nilmap" THEN DeepCloneMap(overlay)
    ELSE IF Label(overlay) = "nilmap" THEN DeepCloneMap(base)
    ELSE Mk("map",
            [k \in KeysOf(base) \cup KeysOf(overlay) |->
                IF k \in KeysOf(base) /\ k \in KeysOf(overlay)
                THEN IF IsMap(Child(base, k)) /\ IsMap(Child(overlay, k))
                     THEN DeepMerge(Child(base, k), Child(overlay, k))
                     ELSE DeepCloneValue(Child(overlay, k))
                ELSE IF k \in KeysOf(base)
                THEN DeepCloneValue(Child(base, k))
                ELSE DeepCloneValue(Child(overlay, k))])

\* (a DeepMerge that returns the empty map when base is nil)
DeepMergeDropsOverlay(base, overlay) ==
    IF Label(base) = "nilmap" THEN EmptyMap
    ELSE IF Label(overlay) = "nilmap" THEN DeepCloneMap(base)
    ELSE Mk("map",
            [k \in KeysOf(base) \cup KeysOf(overlay) |->
                IF k \in KeysOf(base) /\ k \in KeysOf(overlay)
                THEN IF IsMap(Child(base, k)) /\ IsMap(Child(overlay, k))
                     THEN DeepMerge(Child(base, k), Child(overlay, k))
                     ELSE DeepCloneValue(Child(overlay, k))
                ELSE IF k \in KeysOf(base)
                THEN DeepCloneValue(Child(base, k))
                ELSE DeepCloneValue(Child(overlay, k))])

\* (a DeepMerge that takes a nil value of overlay for a missing key)
DeepMergeNilIsAbsent(base, overlay) ==
    IF Label(base) = "nilmap" /\ Label(overlay) = "nilmap" THEN EmptyMap
    ELSE IF Label(base) = "nilmap" THEN DeepCloneMap(overlay)
    ELSE IF Label(overlay) = "nilmap" THEN DeepCloneMap(base)
    ELSE Mk("map",
            [k \in KeysOf(base) \cup KeysOf(overlay) |->
                IF k \in KeysOf(base) /\ k \in KeysOf(overlay)
                THEN IF IsMap(Child(base, k)) /\ IsMap(Child(overlay, k))
                     THEN DeepMerge(Child(base, k), Child(overlay, k))
                     ELSE IF Label(Child(overlay, k)) = "nil"
                     THEN DeepCloneValue(Child(base, k))
                     ELSE DeepCloneValue(Child(overlay, k))
                ELSE IF k \in KeysOf(base)
                THEN DeepCloneValue(Child(base, k))
                ELSE DeepCloneValue(Child(overlay, k))])

\* (a DeepMerge that skips the keys found only in overlay)
DeepMergeBaseKeys(base, overlay) ==
    IF Label(base) = "nilmap" /\ Label(overlay) = "nilmap" THEN EmptyMap
    ELSE IF Label(base) = "nilmap" THEN DeepCloneMap(overlay)
    ELSE IF Label(overlay) = "nilmap" THEN DeepCloneMap(base)
    ELSE Mk("map",
            [k \in KeysOf(base) |->
                IF k \in KeysOf(overlay)
                THEN IF IsMap(Child(base, k)) /\ IsMap(Child(overlay, k))
                     THEN DeepMerge(Child(base, k), Child(overlay, k))
                     ELSE DeepCloneValue(Child(overlay, k))
                ELSE DeepCloneValue(Child(base, k))])

\* (a DeepMerge that lets overlay's map replace base's map)
DeepMergeShallow(base, overlay) ==
    IF Label(base) = "nilmap" /\ Label(overlay) = "nilmap" THEN EmptyMap
    ELSE IF Label(base) = "nilmap" THEN DeepCloneMap(overlay)
    ELSE IF Label(overlay) = "nilmap" THEN DeepCloneMap(base)
    ELSE Mk("map",
            [k \in KeysOf(base) \cup KeysOf(overlay) |->
                IF k \in KeysOf(overlay)
                THEN DeepCloneValue(Child(overlay, k))
                ELSE DeepCloneValue(Child(base, k))])

\* (a DeepMerge that appends overlay's elements to base's when both values
\* are []any)
DeepMergeAppends(base, overlay) ==
    IF Label(base) = "nilmap" /\ Label(overlay) = "nilmap" THEN EmptyMap
    ELSE IF Label(base) = "nilmap" THEN DeepCloneMap(overlay)
    ELSE IF Label(overlay) = "nilmap" THEN DeepCloneMap(base)
    ELSE Mk("map",
            [k \in KeysOf(base) \cup KeysOf(overlay) |->
                IF k \in KeysOf(base) /\ k \in KeysOf(overlay)
                THEN IF IsMap(Child(base, k)) /\ IsMap(Child(overlay, k))
                     THEN DeepMerge(Child(base, k), Child(overlay, k))
                     ELSE IF Label(Child(base, k)) = "anys" /\ Label(Child(overlay, k)) = "anys"
                     THEN Mk("anys", [i \in KeysOf(Child(base, k)) \cup {"9"} |->
                                        IF i = "9" THEN DeepCloneValue(Child(overlay, k))
                                        ELSE DeepCloneValue(Child(Child(base, k), i))])
                     ELSE DeepCloneValue(Child(overlay, k))
                ELSE IF k \in KeysOf(base)
                THEN DeepCloneValue(Child(base, k))
                ELSE DeepCloneValue(Child(overlay, k))])

DeepMerge(base, overlay) ==
    IF Label(base) = "nilmap" /\ Label(overlay) = "nilmap" THEN EmptyMap
    ELSE IF Label(base) = "nilmap" THEN DeepCloneMap(overlay)
    ELSE IF Label(overlay) = "nilmap" THEN DeepCloneMap(base)
    ELSE Mk("map",
            [k \in KeysOf(base) \cup KeysOf(overlay) |->
                IF k \in KeysOf(base) /\ k \in KeysOf(overlay)
                THEN IF IsMap(Child(base, k)) /\ IsMap(Child(overlay, k))
                     THEN DeepMerge(Child(base, k), Child(overlay, k))
                     ELSE DeepCloneValue(Child(overlay, k))
                ELSE IF k \in KeysOf(base)
                THEN DeepCloneValue(Child(base, k))
                ELSE DeepCloneValue(Child(overlay, k))])

\* the values a map of the inputs holds: nil, a scalar, a []any of one
\* scalar, a nil map, an empty map
Values0 ==
    { Leaf("nil"), NilMap, EmptyMap, Mk("anys", [i \in {"0"} |-> Leaf("s1")]) }
      \cup { Leaf(x) : x \in Scalars }

\* the maps given to DeepMerge: nil, or any map from some of the keys to
\* these values
MapsOver(vals) ==
    {NilMap} \cup UNION { { Mk("map", ch) : ch \in [S -> vals] } : S \in SUBSET MergeKeys }

----------------------------------------------------------------------------
(* DeepMerge as a function of its two maps: specification SpecMerge *)

MergeInit ==
    /\ now = 0
    /\ ttl = 0
    /\ keyFunc = "nil"
    /\ entries = NoEntries
    /\ ret = NoRet
    /\ lastSet = NoEntries
    /\ ConcIdle
    /\ arrs = <<>>
    /\ objs = <<>>
    /\ held = {}
    /\ stored = NoEntries
    /\ wrapper = "ready"
    /\ plain = NoEntries
    /\ cells = <<>>
    /\ \E base \in MapsOver(Values0), overlay \in MapsOver(Values0) :
          call = [fn |-> "DeepMerge", in |-> <<base, overlay>>, out |-> <<>>]

\* result := maps.DeepMerge(base, overlay)
MergeCall ==
    /\ call.fn = "DeepMerge"
    /\ call.out = <<>>
    /\ call' = [call EXCEPT !.out = <<DeepMerge(call.in[1], call.in[2])>>]
    /\ UNCHANGED <<cacheVars, seqVars, concVars, arrs, objs, held, stored, wrapper, plain, cells>>

MergeNext == MergeCall

SpecMerge == MergeInit /\ [][MergeNext]_vars

\* C20: DeepMerge of two nil maps returns an empty map that is not nil, and
\* for no pair of maps does DeepMerge return nil.
C20_MergeNeverNil ==
    call.out # <<>> =>
        /\ Label(call.out[1]) = "map"
        /\ (call.in[1] = NilMap /\ call.in[2] = NilMap) => call.out[1] = EmptyMap

\* C20 witness: DeepMerge(nil, nil) has returned
C20_Witness ==
    /\ call.out # <<>>
    /\ call.in[1] = NilMap
    /\ call.in[2] = NilMap
    /\ KeysOf(call.out[1]) = {}

\* Structural equality of two trees: the same paths (keys, lengths, order of
\* elements) with the same kind of value and the same scalar at each; a nil
\* slice and an empty slice both have length 0, a nil map and an empty map
\* differ.
Kind(label) ==
    CASE label = "nilanys"  -> "anys"
      [] label = "niltyped" -> "typed"
      [] label = "nilother" -> "other"
      [] OTHER -> label

StructEq(a, b) ==
    /\ DOMAIN a = DOMAIN b
    /\ \A p \in DOMAIN a : Kind(a[p]) = Kind(b[p])

\* C21: with exactly one of base and overlay nil, DeepMerge returns what
\* DeepCloneMap returns for the other map, a tree structurally equal to it.
C21_OneNilIsClone ==
    call.out # <<>> =>
        /\ (call.in[1] = NilMap /\ call.in[2] # NilMap) =>
              /\ call.out[1] = DeepCloneMap(call.in[2])
              /\ StructEq(call.out[1], call.in[2])
        /\ (call.in[1] # NilMap /\ call.in[2] = NilMap) =>
              /\ call.out[1] = DeepCloneMap(call.in[1])
              /\ StructEq(call.out[1], call.in[1])

\* C21 witness: DeepMerge(nil, overlay) has returned for an overlay holding a
\* slice and a scalar
C21_Witness ==
    /\ call.out # <<>>
    /\ call.in[1] = NilMap
    /\ call.in[2] # NilMap
    /\ \E k \in KeysOf(call.in[2]) : Label(Child(call.in[2], k)) = "anys"
    /\ \E k \in KeysOf(call.out[1]) : Label(Child(call.out[1], k)) \in Scalars

----------------------------------------------------------------------------
(* DeepMerge of maps holding maps, slices and scalars: specification        *)
(* SpecNested                                                                *)

\* a []any of the given scalars, in order
AnysOf(xs) == Mk("anys", [i \in { IndexNames[n] : n \in 1 .. Len(xs) } |->
                            Leaf(xs[CHOOSE n \in 1 .. Len(xs) : IndexNames[n] = i])])

\* a map of one key, a map of two keys
Map1(k, v)         == Mk("map", [x \in {k} |-> v])
Map2(k1, v1, k2, v2) == Mk("map", [x \in {k1, k2} |-> IF x = k1 THEN v1 ELSE v2])

\* the values the maps of SpecNested hold: two scalars, two []any of
\* different lengths, a map of two keys and a map of one key, and each of the
\* two maps inside a map
Values1 ==
    { Leaf("s1"), Leaf("s2"),
      AnysOf(<<"s1", "s2">>), AnysOf(<<"s2">>),
      Map2(KeyNames[1], Leaf("s1"), KeyNames[2], Leaf("s1")),
      Map1(KeyNames[1], Leaf("s2")),
      Map1(KeyNames[1], Map2(KeyNames[1], Leaf("s1"), KeyNames[2], Leaf("s1"))),
      Map1(KeyNames[1], Map1(KeyNames[1], Leaf("s2"))) }

NestedInit ==
    /\ now = 0
    /\ ttl = 0
    /\ keyFunc = "nil"
    /\ entries = NoEntries
    /\ ret = NoRet
    /\ lastSet = NoEntries
    /\ ConcIdle
    /\ arrs = <<>>
    /\ objs = <<>>
    /\ held = {}
    /\ stored = NoEntries
    /\ wrapper = "ready"
    /\ plain = NoEntries
    /\ cells = <<>>
    /\ \E base \in MapsOver(Values1), overlay \in MapsOver(Values1) :
          call = [fn |-> "DeepMerge", in |-> <<base, overlay>>, out |-> <<>>]

NestedNext == MergeCall

SpecNested == NestedInit /\ [][NestedNext]_vars

\* the keys of both maps, and those of them whose two values are both maps
InBoth(b, o)   == KeysOf(b) \cap KeysOf(o)
BothMaps(b, o) == { k \in InBoth(b, o) : IsMap(Child(b, k)) /\ IsMap(Child(o, k)) }

RECURSIVE UnionOfKeys(_, _, _)
\* r has the keys of b and of o, the clone of b's value under a key of b
\* alone and of o's value under a key of o alone, and so at every level where
\* two maps that are not nil were merged
UnionOfKeys(b, o, r) ==
    /\ Label(r) = "map"
    /\ KeysOf(r) = KeysOf(b) \cup KeysOf(o)
    /\ \A k \in KeysOf(b) \ KeysOf(o) :
          /\ Child(r, k) = DeepCloneValue(Child(b, k))
          /\ StructEq(Child(r, k), Child(b, k))
    /\ \A k \in KeysOf(o) \ KeysOf(b) :
          /\ Child(r, k) = DeepCloneValue(Child(o, k))
          /\ StructEq(Child(r, k), Child(o, k))
    /\ \A k \in BothMaps(b, o) :
          (Label(Child(b, k)) = "map" /\ Label(Child(o, k)) = "map") =>
              UnionOfKeys(Child(b, k), Child(o, k), Child(r, k))

\* C22: for a base and an overlay that are not nil, the keys of the result
\* are the keys of base and the keys of overlay, at every level that is
\* merged; a key of base alone holds a clone of base's value, a key of
\* overlay alone a clone of overlay's value.
C22_KeysAreUnion ==
    (call.out # <<>> /\ call.in[1] # NilMap /\ call.in[2] # NilMap) =>
        UnionOfKeys(call.in[1], call.in[2], call.out[1])

\* C22 witness: a merge has returned for maps with a key of base alone and a
\* key of overlay alone, and below a key of both, a map with a key of base
\* alone
C22_Witness ==
    /\ call.out # <<>>
    /\ call.in[1] # NilMap
    /\ call.in[2] # NilMap
    /\ KeysOf(call.in[1]) \ KeysOf(call.in[2]) # {}
    /\ KeysOf(call.in[2]) \ KeysOf(call.in[1]) # {}
    /\ Cardinality(KeysOf(call.out[1])) = 2

RECURSIVE MergedBelow(_, _, _)
\* under every key of both maps whose two values are maps, r holds the merge
\* of the two: the keys of base's map alone keep base's value, the keys of
\* both take overlay's value unless both values are maps again, which are
\* merged in the same way
MergedBelow(b, o, r) ==
    \A k \in BothMaps(b, o) :
        LET bk == Child(b, k)
            ok == Child(o, k)
            rk == Child(r, k)
        IN  /\ rk = DeepMerge(bk, ok)
            /\ \A j \in KeysOf(bk) \ KeysOf(ok) : StructEq(Child(rk, j), Child(bk, j))
            /\ \A j \in InBoth(bk, ok) \ BothMaps(bk, ok) :
                  StructEq(Child(rk, j), Child(ok, j))
            /\ MergedBelow(bk, ok, rk)

\* C23: under a key of both base and overlay whose two values are maps, the
\* result holds DeepMerge of the two maps, to any depth: nested keys of base
\* alone are kept, nested keys of both take overlay's value.
C23_MapsMergeRecursively ==
    (call.out # <<>> /\ call.in[1] # NilMap /\ call.in[2] # NilMap) =>
        MergedBelow(call.in[1], call.in[2], call.out[1])

\* C23 witness: {k: {a: {a: s1, b: s1}}} merged with {k: {a: {a: s2}}} has
\* returned {k: {a: {a: s2, b: s1}}}
C23_Witness ==
    /\ call.out # <<>>
    /\ \E k \in InBoth(call.in[1], call.in[2]) :
          /\ Child(call.in[1], k) =
                Map1(KeyNames[1], Map2(KeyNames[1], Leaf("s1"), KeyNames[2], Leaf("s1")))
          /\ Child(call.in[2], k) = Map1(KeyNames[1], Map1(KeyNames[1], Leaf("s2")))
          /\ Child(call.out[1], k) =
                Map1(KeyNames[1], Map2(KeyNames[1], Leaf("s2"), KeyNames[2], Leaf("s1")))

RECURSIVE OverlayWins(_, _, _)
\* under every key of both maps whose two values are not both maps, r holds
\* a value structurally equal to o's, here and in the maps merged below
OverlayWins(b, o, r) ==
    /\ \A k \in InBoth(b, o) \ BothMaps(b, o) :
          /\ Child(r, k) = DeepCloneValue(Child(o, k))
          /\ StructEq(Child(r, k), Child(o, k))
    /\ \A k \in BothMaps(b, o) :
          (Label(Child(b, k)) = "map" /\ Label(Child(o, k)) = "map") =>
              OverlayWins(Child(b, k), Child(o, k), Child(r, k))

\* C24: under a key of both base and overlay whose two values are not both
\* maps, the result holds a value structurally equal to overlay's value:
\* nothing of base's value is kept, and a slice replaces a slice whole.
C24_OverlayReplaces ==
    (call.out # <<>> /\ call.in[1] # NilMap /\ call.in[2] # NilMap) =>
        OverlayWins(call.in[1], call.in[2], call.out[1])

\* C24 witness: a merge has returned where a []any of one element replaced
\* a []any of two, and a scalar replaced a map
C24_Witness ==
    /\ call.out # <<>>
    /\ \E k \in InBoth(call.in[1], call.in[2]) :
          /\ Child(call.in[1], k) = AnysOf(<<"s1", "s2">>)
          /\ Child(call.in[2], k) = AnysOf(<<"s2">>)
          /\ Child(call.out[1], k) = AnysOf(<<"s2">>)
    /\ \E k \in InBoth(call.in[1], call.in[2]) :
          /\ Label(Child(call.in[1], k)) = "map"
          /\ Child(call.in[2], k) = Leaf("s1")
          /\ Child(call.out[1], k) = Leaf("s1")

----------------------------------------------------------------------------
(* util/maps on a heap: which maps and slices a clone or a merge shares with *)
(* what it was given.                                                        *)
(* A value of type any is a pair <<tag, address>>: <<"nil", 0>> is the nil    *)
(* interface, <<"s1", 0>> a scalar; <<"map", a>> is a map[string]any,         *)
(* <<"anys", a>> a []any, <<"typed", a>> one of []string, []int, []int64,     *)
(* []float64, []bool, <<"other", a>> a slice of any other type, <<"smap", a>> *)
(* a map of another type, <<"ptr", a>> a pointer to a struct; address 0 is    *)
(* the nil map, slice or pointer.  cells[a] holds what is at address a: a     *)
(* function from keys, indices or field names to values.                      *)

SliceTags     == {"anys", "typed", "other"}
ContainerTags == {"map", "smap", "ptr"} \cup SliceTags

NilValue    == <<"nil", 0>>
Tag(v)      == v[1]
Addr(v)     == v[2]
IsNilRef(v) == Tag(v) \in ContainerTags /\ Addr(v) = 0
NoCell      == [k \in {} |-> NilValue]

\* make(...): a new, empty map or slice; its address is Len of the new heap
AllocCell(h, cell) == Append(h, cell)

\* m[k] = v, s[i] = v
Put(cell, k, v) == [x \in (DOMAIN cell) \cup {k} |-> IF x = k THEN v ELSE cell[x]]

\* the label a nil map, slice or pointer has in a tree
NilLabel(tag) ==
    CASE tag = "map"   -> "nilmap"
      [] tag = "anys"  -> "nilanys"
      [] tag = "typed" -> "niltyped"
      [] tag = "other" -> "nilother"
      [] tag = "smap"  -> "nilsmap"
      [] tag = "ptr"   -> "nilptr"

RECURSIVE TreeOf(_, _)
\* the tree a value is the root of
TreeOf(h, v) ==
    IF Tag(v) \notin ContainerTags THEN Leaf(Tag(v))
    ELSE IF Addr(v) = 0 THEN Leaf(NilLabel(Tag(v)))
    ELSE Mk(Tag(v), [k \in DOMAIN h[Addr(v)] |-> TreeOf(h, h[Addr(v)][k])])

RECURSIVE Refs(_, _)
\* the maps, slices and pointers reachable from a value, and their addresses
Refs(h, v) ==
    IF Tag(v) \notin ContainerTags \/ Addr(v) = 0 THEN {}
    ELSE {v} \cup UNION { Refs(h, h[Addr(v)][k]) : k \in DOMAIN h[Addr(v)] }

Reach(h, v) == { Addr(w) : w \in Refs(h, v) }

RECURSIVE DeepCloneValueH(_, _)
RECURSIVE DeepCloneMapH(_, _)
RECURSIVE CloneInto(_, _, _, _)
RECURSIVE DeepMergeH(_, _, _)
RECURSIVE MergeBase(_, _, _, _, _)
RECURSIVE MergeOverlay(_, _, _, _, _)

\* for k, v := range src { dst[k] = DeepCloneValue(v) }, over the keys left
CloneInto(h, src, dst, keys) ==
    IF keys = {} THEN h
    ELSE LET k == CHOOSE x \in keys : TRUE
             r == DeepCloneValueH(h, h[src][k])
         IN  CloneInto([r.h EXCEPT ![dst] = Put(@, k, r.v)], src, dst, keys \ {k})

\* (a DeepCloneMap that returns an empty map for nil)
DeepCloneMapHNilAsEmpty(h, m) ==
    LET h1 == AllocCell(h, NoCell)
        a  == Len(h1)
    IN  [h |-> CloneInto(h1, m, a, IF m = 0 THEN {} ELSE DOMAIN h[m]), v |-> <<"map", a>>]

\* DeepCloneMap(m) for the map at address m (0: nil): the heap afterwards and
\* the address returned
DeepCloneMapH(h, m) ==
    IF m = 0 THEN [h |-> h, v |-> <<"map", 0>>]
    ELSE LET h1 == AllocCell(h, NoCell)
             a  == Len(h1)
         IN  [h |-> CloneInto(h1, m, a, DOMAIN h[m]), v |-> <<"map", a>>]

\* (a DeepCloneValue that copies a []any without cloning its elements)
DeepCloneValueHShallow(h, v) ==
    CASE Tag(v) = "nil" -> [h |-> h, v |-> v]
      [] Tag(v) = "map" -> DeepCloneMapH(h, Addr(v))
      [] Tag(v) = "anys" ->
            LET h1 == AllocCell(h, IF Addr(v) = 0 THEN NoCell ELSE h[Addr(v)])
            IN  [h |-> h1, v |-> <<"anys", Len(h1)>>]
      [] Tag(v) = "typed" ->
            LET h1 == AllocCell(h, IF Addr(v) = 0 THEN NoCell ELSE h[Addr(v)])
            IN  [h |-> h1, v |-> <<"typed", Len(h1)>>]
      [] Tag(v) = "other" ->
            LET h1 == AllocCell(h, IF Addr(v) = 0 THEN NoCell ELSE h[Addr(v)])
            IN  [h |-> h1, v |-> <<"other", Len(h1)>>]
      [] OTHER -> [h |-> h, v |-> v]

\* (a DeepCloneValue that clones the elements of a slice of another type)
DeepCloneValueHOtherDeep(h, v) ==
    CASE Tag(v) = "nil" -> [h |-> h, v |-> v]
      [] Tag(v) = "map" -> DeepCloneMapH(h, Addr(v))
      [] Tag(v) = "anys" ->
            LET h1 == AllocCell(h, NoCell)
                a  == Len(h1)
                n  == IF Addr(v) = 0 THEN {} ELSE DOMAIN h[Addr(v)]
            IN  [h |-> CloneInto(h1, Addr(v), a, n), v |-> <<"anys", a>>]
      [] Tag(v) = "typed" ->
            LET h1 == AllocCell(h, IF Addr(v) = 0 THEN NoCell ELSE h[Addr(v)])
            IN  [h |-> h1, v |-> <<"typed", Len(h1)>>]
      [] Tag(v) = "other" ->
            LET h1 == AllocCell(h, NoCell)
                a  == Len(h1)
                n  == IF Addr(v) = 0 THEN {} ELSE DOMAIN h[Addr(v)]
            IN  [h |-> CloneInto(h1, Addr(v), a, n), v |-> <<"other", a>>]
      [] OTHER -> [h |-> h, v |-> v]

\* (a DeepCloneValue that copies what a pointer points to and a map of another type)
DeepCloneValueHCopiesAll(h, v) ==
    CASE Tag(v) = "nil" -> [h |-> h, v |-> v]
      [] Tag(v) = "map" -> DeepCloneMapH(h, Addr(v))
      [] Tag(v) = "anys" ->
            LET h1 == AllocCell(h, NoCell)
                a  == Len(h1)
                n  == IF Addr(v) = 0 THEN {} ELSE DOMAIN h[Addr(v)]
            IN  [h |-> CloneInto(h1, Addr(v), a, n), v |-> <<"anys", a>>]
      [] Tag(v) = "typed" ->
            LET h1 == AllocCell(h, IF Addr(v) = 0 THEN NoCell ELSE h[Addr(v)])
            IN  [h |-> h1, v |-> <<"typed", Len(h1)>>]
      [] Tag(v) = "other" ->
            LET h1 == AllocCell(h, IF Addr(v) = 0 THEN NoCell ELSE h[Addr(v)])
            IN  [h |-> h1, v |-> <<"other", Len(h1)>>]
      [] Tag(v) \in {"ptr", "smap"} /\ Addr(v) # 0 ->
            LET h1 == AllocCell(h, h[Addr(v)])
            IN  [h |-> h1, v |-> <<Tag(v), Len(h1)>>]
      [] OTHER -> [h |-> h, v |-> v]

\* DeepCloneValue(v): the heap afterwards and the value returned
DeepCloneValueH(h, v) ==
    CASE Tag(v) = "nil" -> [h |-> h, v |-> v]
      [] Tag(v) = "map" -> DeepCloneMapH(h, Addr(v))
      [] Tag(v) = "anys" ->
            LET h1 == AllocCell(h, NoCell)
                a  == Len(h1)
                n  == IF Addr(v) = 0 THEN {} ELSE DOMAIN h[Addr(v)]
            IN  [h |-> CloneInto(h1, Addr(v), a, n), v |-> <<"anys", a>>]
      [] Tag(v) = "typed" ->
            LET h1 == AllocCell(h, IF Addr(v) = 0 THEN NoCell ELSE h[Addr(v)])
            IN  [h |-> h1, v |-> <<"typed", Len(h1)>>]
      [] Tag(v) = "other" ->
            LET h1 == AllocCell(h, IF Addr(v) = 0 THEN NoCell ELSE h[Addr(v)])
            IN  [h |-> h1, v |-> <<"other", Len(h1)>>]
      [] OTHER -> [h |-> h, v |-> v]

\* the first loop of DeepMerge, over the keys of base left
MergeBase(h, base, overlay, dst, keys) ==
    IF keys = {} THEN h
    ELSE LET k  == CHOOSE x \in keys : TRUE
             bv == h[base][k]
             r  == IF k \in DOMAIN h[overlay]
                   THEN IF Tag(bv) = "map" /\ Tag(h[overlay][k]) = "map"
                        THEN DeepMergeH(h, Addr(bv), Addr(h[overlay][k]))
                        ELSE DeepCloneValueH(h, h[overlay][k])
                   ELSE DeepCloneValueH(h, bv)
         IN  MergeBase([r.h EXCEPT ![dst] = Put(@, k, r.v)], base, overlay, dst, keys \ {k})

\* the second loop of DeepMerge, over the keys of overlay left
MergeOverlay(h, base, overlay, dst, keys) ==
    IF keys = {} THEN h
    ELSE LET k == CHOOSE x \in keys : TRUE
         IN  IF k \in DOMAIN h[base]
             THEN MergeOverlay(h, base, overlay, dst, keys \ {k})
             ELSE LET r == DeepCloneValueH(h, h[overlay][k])
                  IN  MergeOverlay([r.h EXCEPT ![dst] = Put(@, k, r.v)],
                                   base, overlay, dst, keys \ {k})

\* (a DeepMerge that writes overlay's values into base and returns base)
DeepMergeHInPlace(h, base, overlay) ==
    IF base = 0 /\ overlay = 0
    THEN LET h1 == AllocCell(h, NoCell) IN [h |-> h1, v |-> <<"map", Len(h1)>>]
    ELSE IF base = 0 THEN DeepCloneMapH(h, overlay)
    ELSE IF overlay = 0 THEN DeepCloneMapH(h, base)
    ELSE LET h2 == MergeBase(h, base, overlay, base, DOMAIN h[base])
         IN  [h |-> MergeOverlay(h2, base, overlay, base, DOMAIN h[overlay]), v |-> <<"map", base>>]

\* DeepMerge(base, overlay) for the maps at these addresses (0: nil): the
\* heap afterwards and the map returned
DeepMergeH(h, base, overlay) ==
    IF base = 0 /\ overlay = 0
    THEN LET h1 == AllocCell(h, NoCell) IN [h |-> h1, v |-> <<"map", Len(h1)>>]
    ELSE IF base = 0 THEN DeepCloneMapH(h, overlay)
    ELSE IF overlay = 0 THEN DeepCloneMapH(h, base)
    ELSE LET h1 == AllocCell(h, NoCell)
             a  == Len(h1)
             h2 == MergeBase(h1, base, overlay, a, DOMAIN h[base])
         IN  [h |-> MergeOverlay(h2, base, overlay, a, DOMAIN h[overlay]), v |-> <<"map", a>>]

RECURSIVE Build(_, _)
RECURSIVE BuildInto(_, _, _, _)

\* the tag of a label
TagOf(label) ==
    CASE label \in {"map", "nilmap"}     -> "map"
      [] label \in {"anys", "nilanys"}   -> "anys"
      [] label \in {"typed", "niltyped"} -> "typed"
      [] label \in {"other", "nilother"} -> "other"
      [] label \in {"smap", "nilsmap"}   -> "smap"
      [] label \in {"ptr", "nilptr"}     -> "ptr"
      [] OTHER -> label

BuildInto(h, t, dst, keys) ==
    IF keys = {} THEN h
    ELSE LET k == CHOOSE x \in keys : TRUE
             r == Build(h, Child(t, k))
         IN  BuildInto([r.h EXCEPT ![dst] = Put(@, k, r.v)], t, dst, keys \ {k})

\* a heap holding the tree t, each map and slice of it at an address of its
\* own, and the value at its root
Build(h, t) ==
    IF Label(t) \notin ContainerTags THEN [h |-> h, v |-> <<TagOf(Label(t)), 0>>]
    ELSE LET h1 == AllocCell(h, NoCell)
             a  == Len(h1)
         IN  [h |-> BuildInto(h1, t, a, KeysOf(t)), v |-> <<Label(t), a>>]

----------------------------------------------------------------------------
(* DeepCloneMap and DeepCloneValue, and writes through the clone and through *)
(* what was cloned: specification SpecClone                                  *)

MaxWrites == 1      \* writes made after the call has returned

Mutated == <<"s9", 0>>      \* the value a write stores

\* trees of the shapes DeepCloneValue copies at every level
JsonTrees ==
    Values0 \cup Values1 \cup
    { Leaf("nilanys"), Leaf("niltyped"),
      Mk("typed", [i \in {"0", "1"} |-> Leaf("s1")]),
      Mk("anys", [i \in {"0", "1"} |->
                    IF i = "0" THEN Map1(KeyNames[1], Leaf("s1")) ELSE AnysOf(<<"s1">>)]),
      Map2(KeyNames[1], Mk("typed", [i \in {"0"} |-> Leaf("s1")]),
           KeyNames[2], Map1(KeyNames[1], Mk("anys", [i \in {"0"} |-> Map1(KeyNames[1], Leaf("s1"))]))),
      Map2(KeyNames[1], Leaf("nil"), KeyNames[2], NilMap),
      Map2(KeyNames[1], Leaf("nilanys"), KeyNames[2], EmptyMap) }

\* slices of other types: []uint8, a nil one, []map[string]any, []*T
OtherSlices ==
    { Mk("other", [i \in {"0", "1"} |-> Leaf("s1")]),
      Leaf("nilother"),
      Mk("other", [i \in {"0"} |-> Map1(KeyNames[1], Leaf("s1"))]),
      Mk("other", [i \in {"0"} |-> Mk("ptr", [f \in {"f"} |-> Leaf("s1")])]) }

\* values that are neither map[string]any nor a slice: scalars, a pointer to
\* a struct, a nil pointer, a map[string]string, a pointer to a struct that
\* holds a map[string]any
Opaque ==
    { Leaf(x) : x \in Scalars } \cup
    { Mk("ptr", [f \in {"f"} |-> Leaf("s1")]),
      Leaf("nilptr"),
      Mk("smap", [k \in {KeyNames[1]} |-> Leaf("s1")]),
      Mk("ptr", [f \in {"f"} |-> Map1(KeyNames[1], Leaf("s1"))]) }

\* what is given to DeepCloneValue: these, and maps holding them
CloneInputs ==
    JsonTrees \cup OtherSlices \cup Opaque \cup
    { Map1(KeyNames[1], t) : t \in OtherSlices \cup Opaque } \cup
    { Mk("anys", [i \in {"0"} |-> t]) : t \in OtherSlices \cup Opaque }

\* no slice of another type, no pointer and no map of another type in t
IsJson(t) == \A p \in DOMAIN t : TagOf(t[p]) \notin {"other", "ptr", "smap"}

CloneInit ==
    /\ now = 0
    /\ ttl = 0
    /\ keyFunc = "nil"
    /\ entries = NoEntries
    /\ ret = NoRet
    /\ lastSet = NoEntries
    /\ ConcIdle
    /\ arrs = <<>>
    /\ objs = <<>>
    /\ held = {}
    /\ stored = NoEntries
    /\ wrapper = "ready"
    /\ plain = NoEntries
    /\ \E t \in CloneInputs :
          LET b == Build(<<>>, t)
          IN  /\ cells = b.h
              /\ \E fn \in {"DeepCloneValue"} \cup
                           (IF Tag(b.v) = "map" THEN {"DeepCloneMap"} ELSE {}) :
                    call = [fn |-> fn, in |-> <<b.v>>, was |-> <<t>>, out |-> <<>>,
                            writes |-> 0, via |-> "none"]

\* clone := maps.DeepCloneValue(v), clone := maps.DeepCloneMap(m)
CloneCall ==
    /\ call.out = <<>>
    /\ LET r == IF call.fn = "DeepCloneMap"
                THEN DeepCloneMapH(cells, Addr(call.in[1]))
                ELSE DeepCloneValueH(cells, call.in[1])
       IN  /\ cells' = r.h
           /\ call' = [call EXCEPT !.out = <<r.v>>]
    /\ UNCHANGED <<cacheVars, seqVars, concVars, arrs, objs, held, stored, wrapper, plain>>

\* the keys a write may store under: in a map any key, in a slice an index
\* within its length, in a struct a field
WriteKeys(h, w) ==
    (DOMAIN h[Addr(w)]) \cup (IF Tag(w) \in {"map", "smap"} THEN {KeyNames[MaxKeys]} ELSE {})

\* x[k] = "mutated" for a map, slice or struct x reached through root
WriteThrough(root, side) ==
    /\ call.out # <<>>
    /\ call.writes < MaxWrites
    /\ \E w \in Refs(cells, root) : \E k \in WriteKeys(cells, w) :
          cells' = [cells EXCEPT ![Addr(w)] = Put(@, k, Mutated)]
    /\ call' = [call EXCEPT !.writes = @ + 1, !.via = side]
    /\ UNCHANGED <<cacheVars, seqVars, concVars, arrs, objs, held, stored, wrapper, plain>>

WriteClone  == call.out # <<>> /\ WriteThrough(call.out[1], "clone")
WriteSource == call.out # <<>> /\ WriteThrough(call.in[1], "source")

CloneNext == CloneCall \/ WriteClone \/ WriteSource

SpecClone == CloneInit /\ [][CloneNext]_vars

\* C27: DeepCloneMap and DeepCloneValue return a value structurally equal to
\* what they were given: the same keys, lengths, order and scalars; the nil
\* map clones to nil, the empty map to an empty map that is not nil.
C27_CloneIsEqual ==
    (call.out # <<>> /\ call.writes = 0) =>
        /\ StructEq(TreeOf(cells, call.out[1]), call.was[1])
        /\ TreeOf(cells, call.out[1]) = DeepCloneValue(call.was[1])
        /\ call.in[1] = <<"map", 0>> => call.out[1] = <<"map", 0>>
        /\ call.was[1] = EmptyMap =>
              /\ Tag(call.out[1]) = "map"
              /\ Addr(call.out[1]) # 0
              /\ DOMAIN cells[Addr(call.out[1])] = {}

\* C27 witness: the clone of {a: []string, b: {a: [{a: s1}]}} has been
\* returned, at another address
C27_Witness ==
    /\ call.out # <<>>
    /\ call.writes = 0
    /\ call.fn = "DeepCloneMap"
    /\ call.was[1] =
          Map2(KeyNames[1], Mk("typed", [i \in {"0"} |-> Leaf("s1")]),
               KeyNames[2], Map1(KeyNames[1], Mk("anys", [i \in {"0"} |-> Map1(KeyNames[1], Leaf("s1"))])))
    /\ TreeOf(cells, call.out[1]) = call.was[1]
    /\ Addr(call.out[1]) # Addr(call.in[1])

\* C28: for trees of map[string]any, []any and the typed slices []string,
\* []int, []int64, []float64, []bool, the clone shares no map and no slice
\* with what was cloned, at any depth: a write through the clone leaves the
\* source as it was, a write through the source leaves the clone as it was.
C28_CloneIsIsolated ==
    [][ IsJson(call.was[1]) =>
          /\ call'.out # <<>> =>
                Reach(cells', call'.out[1]) \cap Reach(cells', call'.in[1]) = {}
          /\ (call.out # <<>> /\ call'.writes > call.writes /\ call'.via = "clone") =>
                TreeOf(cells', call.in[1]) = TreeOf(cells, call.in[1])
          /\ (call.out # <<>> /\ call'.writes > call.writes /\ call'.via = "source") =>
                TreeOf(cells', call.out[1]) = TreeOf(cells, call.out[1]) ]_vars

\* C28 witness: a map three levels below the clone of
\* {a: []string, b: {a: [{a: s1}]}} has been written, and the source is as
\* it was
C28_Witness ==
    /\ call.out # <<>>
    /\ call.via = "clone"
    /\ call.was[1] =
          Map2(KeyNames[1], Mk("typed", [i \in {"0"} |-> Leaf("s1")]),
               KeyNames[2], Map1(KeyNames[1], Mk("anys", [i \in {"0"} |-> Map1(KeyNames[1], Leaf("s1"))])))
    /\ TreeOf(cells, call.in[1]) = call.was[1]
    /\ LET p == <<KeyNames[2], KeyNames[1], "0", KeyNames[1]>>
       IN  /\ p \in DOMAIN TreeOf(cells, call.out[1])
           /\ TreeOf(cells, call.out[1])[p] = Tag(Mutated)

\* the cell written by this step
Written == { a \in DOMAIN cells : cells'[a] # cells[a] }

\* C29: a slice of a type that is not enumerated is copied one level: the
\* clone is a new slice of the same length whose slots are its own, and
\* every slot holds the very value the source holds, so a map or a struct
\* among the elements is shared and not cloned.
C29_OtherSliceOneLevel ==
    [][ (Tag(call.in[1]) = "other" /\ call'.out # <<>>) =>
          LET src == call.in[1]
              cl  == call'.out[1]
          IN  /\ Tag(cl) = "other"
              /\ Addr(cl) # 0
              /\ Addr(cl) # Addr(src)
              /\ call.out = <<>> =>
                    /\ Addr(cl) \notin DOMAIN cells
                    /\ DOMAIN cells'[Addr(cl)] = (IF Addr(src) = 0 THEN {} ELSE DOMAIN cells[Addr(src)])
                    /\ \A i \in DOMAIN cells'[Addr(cl)] : cells'[Addr(cl)][i] = cells[Addr(src)][i]
                    /\ \A a \in DOMAIN cells : cells'[a] = cells[a]
              /\ (call.out # <<>> /\ Written = {Addr(cl)}) =>
                    TreeOf(cells', src) = TreeOf(cells, src)
              /\ (call.out # <<>> /\ Addr(src) # 0 /\ Written = {Addr(src)}) =>
                    TreeOf(cells', cl) = TreeOf(cells, cl)
              /\ (call.out # <<>> /\ Written # {}
                    /\ Written \subseteq Reach(cells, src) \cap Reach(cells, cl)) =>
                    /\ TreeOf(cells', src) # TreeOf(cells, src)
                    /\ TreeOf(cells', cl) # TreeOf(cells, cl) ]_vars

\* C29 witness: the map inside the clone of a []map[string]any of one
\* element has been written, and the source shows the write
C29_Witness ==
    /\ call.out # <<>>
    /\ call.via = "clone"
    /\ call.was[1] = Mk("other", [i \in {"0"} |-> Map1(KeyNames[1], Leaf("s1"))])
    /\ Addr(call.out[1]) # Addr(call.in[1])
    /\ cells[Addr(call.out[1])]["0"] = cells[Addr(call.in[1])]["0"]
    /\ TreeOf(cells, call.in[1]) =
          Mk("other", [i \in {"0"} |-> Map1(KeyNames[1], Leaf(Tag(Mutated)))])

\* C30: a value that is neither a map[string]any nor a slice (a scalar, a
\* pointer, a struct behind a pointer, a map of another type) is returned by
\* DeepCloneValue as it is: the call allocates and writes nothing, clone and
\* source are the same object, and a write through one shows through the
\* other.
C30_OpaqueByIdentity ==
    [][ (Tag(call.in[1]) \notin {"map"} \cup SliceTags) =>
          /\ (call.out = <<>> /\ call'.out # <<>>) => cells' = cells
          /\ call'.out # <<>> => call'.out[1] = call'.in[1]
          /\ (call.out # <<>> /\ Written # {}) =>
                /\ TreeOf(cells', call.in[1]) # TreeOf(cells, call.in[1])
                /\ TreeOf(cells', call.out[1]) # TreeOf(cells, call.out[1])
                /\ TreeOf(cells', call.out[1]) = TreeOf(cells', call.in[1]) ]_vars

\* C30 witness: the map held by the struct behind the pointer returned for a
\* pointer has been written, and the struct behind the source shows the write
C30_Witness ==
    /\ call.out # <<>>
    /\ call.via = "clone"
    /\ call.was[1] = Mk("ptr", [f \in {"f"} |-> Map1(KeyNames[1], Leaf("s1"))])
    /\ call.out[1] = call.in[1]
    /\ TreeOf(cells, call.in[1]) =
          Mk("ptr", [f \in {"f"} |-> Map1(KeyNames[1], Leaf(Tag(Mutated)))])

----------------------------------------------------------------------------
(* DeepMerge on the heap, and writes through its result: specification      *)
(* SpecShare                                                                 *)

\* any map from some of the keys to the values
MapsOn(keys, vals) ==
    UNION { { Mk("map", ch) : ch \in [S -> vals] } : S \in SUBSET keys }

\* what the maps given to DeepMerge hold: a scalar, a []any of a map, a map
\* of a []string, a []map[string]any, a pointer to a struct
ShareValues ==
    { Leaf("s1"),
      Mk("anys", [i \in {"0"} |-> Map1(KeyNames[1], Leaf("s1"))]),
      Map1(KeyNames[1], Mk("typed", [i \in {"0"} |-> Leaf("s1")])),
      Mk("other", [i \in {"0"} |-> Map1(KeyNames[1], Leaf("s1"))]),
      Mk("ptr", [f \in {"f"} |-> Leaf("s1")]) }

ShareMaps == {NilMap} \cup MapsOn({KeyNames[1], KeyNames[2]}, ShareValues)

\* base and overlay are two maps, or one map given twice
ShareInit ==
    /\ now = 0
    /\ ttl = 0
    /\ keyFunc = "nil"
    /\ entries = NoEntries
    /\ ret = NoRet
    /\ lastSet = NoEntries
    /\ ConcIdle
    /\ arrs = <<>>
    /\ objs = <<>>
    /\ held = {}
    /\ stored = NoEntries
    /\ wrapper = "ready"
    /\ plain = NoEntries
    /\ \E base \in ShareMaps :
          LET b1 == Build(<<>>, base)
          IN  \/ \E overlay \in ShareMaps :
                    LET b2 == Build(b1.h, overlay)
                    IN  /\ cells = b2.h
                        /\ call = [fn |-> "DeepMerge", in |-> <<b1.v, b2.v>>,
                                   was |-> <<base, overlay>>, out |-> <<>>,
                                   writes |-> 0, via |-> "none"]
              \/ /\ cells = b1.h
                 /\ call = [fn |-> "DeepMerge", in |-> <<b1.v, b1.v>>,
                            was |-> <<base, base>>, out |-> <<>>,
                            writes |-> 0, via |-> "none"]

\* result := maps.DeepMerge(base, overlay)
ShareCall ==
    /\ call.out = <<>>
    /\ LET r == DeepMergeH(cells, Addr(call.in[1]), Addr(call.in[2]))
       IN  /\ cells' = r.h
           /\ call' = [call EXCEPT !.out = <<r.v>>]
    /\ UNCHANGED <<cacheVars, seqVars, concVars, arrs, objs, held, stored, wrapper, plain>>

WriteResult == call.out # <<>> /\ WriteThrough(call.out[1], "result")

ShareNext == ShareCall \/ WriteResult

SpecShare == ShareInit /\ [][ShareNext]_vars

\* C25: DeepMerge leaves base and overlay as they were: the call writes to
\* no map and no slice that existed before it, and the trees under base and
\* under overlay are the same after the call as before, at every level.
C25_MergeLeavesInputs ==
    [][ (call.out = <<>> /\ call'.out # <<>>) =>
          /\ \A a \in DOMAIN cells : cells'[a] = cells[a]
          /\ TreeOf(cells', call.in[1]) = call.was[1]
          /\ TreeOf(cells', call.in[2]) = call.was[2] ]_vars

\* C25 witness: a merge has returned for two maps that hold a map under the
\* same key and a slice under another, and both are as they were
C25_Witness ==
    /\ call.out # <<>>
    /\ call.writes = 0
    /\ call.in[1] # call.in[2]
    /\ \E k \in BothMaps(call.was[1], call.was[2]) : Label(Child(call.was[1], k)) = "map"
    /\ \E k \in InBoth(call.was[1], call.was[2]) : Label(Child(call.was[1], k)) = "anys"
    /\ TreeOf(cells, call.in[1]) = call.was[1]
    /\ TreeOf(cells, call.in[2]) = call.was[2]
    /\ Len(cells) > 8

\* the maps, slices and structs reachable from base or from overlay
InputCells(h) == Reach(h, call.in[1]) \cup Reach(h, call.in[2])

\* the maps and slices reachable from a value
MapsAndSlices(h, v) == { Addr(w) : w \in { x \in Refs(h, v) : Tag(x) # "ptr" } }

----------------------------------------------------------------------------
(* DefaultKeyFunc as a function of the key, and a Set and a Get through it:  *)
(* specification SpecKeyFunc                                                 *)

MaxInt == 12        \* integer keys are -MaxInt .. MaxInt

\* "", "1", "-1", "(int32)1"
KeyTexts == { <<>>, <<49>>, <<45, 49>>, <<40, 105, 110, 116, 51, 50, 41, 49>> }

KeyInputs ==
    { IntKey(n) : n \in (0 - MaxInt) .. MaxInt }
      \cup { Int64Key(n) : n \in (0 - MaxInt) .. MaxInt }
      \cup { Int32Key(n) : n \in (0 - MaxInt) .. MaxInt }
      \cup { StrKey(s) : s \in KeyTexts }
      \cup { BytesKey(s) : s \in KeyTexts }
      \cup { SpecKey(<<47, 112>>, ver) : ver \in { <<118, 49>>, <<118, 50>> } }

KeyInit ==
    /\ now = 0
    /\ ttl = New(<<>>).ttl
    /\ keyFunc = New(<<>>).keyFunc
    /\ entries = NoEntries
    /\ ret = NoRet
    /\ lastSet = NoEntries
    /\ ConcIdle
    /\ arrs = <<>>
    /\ objs = <<>>
    /\ held = {}
    /\ stored = NoEntries
    /\ wrapper = "ready"
    /\ plain = NoEntries
    /\ cells = <<>>
    /\ \E k \in KeyInputs :
          call = [fn |-> "DefaultKeyFunc", in |-> <<k>>, out |-> <<>>]

\* strKey := DefaultKeyFunc(key)
KeyCall ==
    /\ call.out = <<>>
    /\ call' = [call EXCEPT !.out = <<DefaultKeyFunc(call.in[1])>>]
    /\ UNCHANGED <<cacheVars, seqVars, concVars, arrs, objs, held, stored, wrapper, plain, cells>>

\* c.Set(key, v)
KeySet ==
    /\ call.out # <<>>
    /\ ret.op = "none"
    /\ \E v \in Values : Set(call.in[1], v)

\* c.Get(key2), for any key
KeyGet ==
    /\ ret.op = "Set"
    /\ \E k \in KeyInputs : Get(k)

KeyNext == KeyCall \/ KeySet \/ KeyGet

SpecKeyFunc == KeyInit /\ [][KeyNext]_vars

RECURSIVE ParseUint(_)
\* the number a text of decimal digits spells, -1 when it has another byte
ParseUint(s) ==
    IF s = <<>> THEN 0
    ELSE LET d    == s[Len(s)]
             rest == ParseUint(SubSeq(s, 1, Len(s) - 1))
         IN  IF d < 48 \/ d > 57 \/ rest < 0 THEN 0 - 1 ELSE 10 * rest + (d - 48)

\* s is the decimal text of n: a minus sign for a negative n, then the digits
\* of its absolute value, without leading zeros
IsDecimalOf(s, n) ==
    LET digits == IF n < 0 THEN Tail(s) ELSE s
    IN  /\ s # <<>>
        /\ n < 0 => s[1] = 45
        /\ digits # <<>>
        /\ ParseUint(digits) = (IF n < 0 THEN 0 - n ELSE n)
        /\ Len(digits) > 1 => digits[1] # 48

\* the properties of C31 that do not depend on the kind of integer
KeyOtherwise ==
    /\ call.out # <<>> =>
          /\ call.in[1].kind \in {"string", "bytes"} => call.out[1] = call.in[1].v
          /\ \A k \in KeyInputs :
                (DefaultKeyFunc(k) = call.out[1] /\ k.kind = call.in[1].kind) => k = call.in[1]
    /\ (ret.op = "Get" /\ ret.key = call.in[1]) =>
          /\ ret.found
          /\ ret.value = lastSet[call.out[1]].value
          /\ DOMAIN entries = {call.out[1]}

\* C31 as stated: a key of any integer kind is normalized to its decimal
\* text.
C31_AnyIntegerDecimal ==
    /\ KeyOtherwise
    /\ (call.out # <<>> /\ call.in[1].kind \in {"int", "int32", "int64"}) =>
          IsDecimalOf(call.out[1], call.in[1].v[1])

\* C31, amended: DefaultKeyFunc returns a string key as it is, a []byte as
\* the string of its bytes, an int and an int64 as its decimal text; any
\* other key, one of another integer type included, is given the text of
\* dump.ForHash, equal for equal keys; so Set(k, v) then Get(k) hits.
C31_KeyNormalizer ==
    /\ KeyOtherwise
    /\ (call.out # <<>> /\ call.in[1].kind \in {"int", "int64"}) =>
          IsDecimalOf(call.out[1], call.in[1].v[1])
    /\ (call.out # <<>> /\ call.in[1].kind \notin {"string", "bytes", "int", "int64"}) =>
          call.out[1] = ForHash(call.in[1])

\* C31 witness: Set(int64(-12), v) was stored under "-12" and Get(int64(-12))
\* has returned v
C31_Witness ==
    /\ call.in[1] = Int64Key(0 - 12)
    /\ call.out = << <<45, 49, 50>> >>
    /\ ret.op = "Get"
    /\ ret.key = call.in[1]
    /\ ret.found

----------------------------------------------------------------------------
(* util/k8s: SetAnnotation, SetAnnotations, SetLabel, SetLabels on an        *)
(* Object: specification SpecMeta                                            *)

\* a map[string]string: nil, or a function from the keys it holds
NilStrMap == [nil |-> TRUE, m |-> <<>>]
StrMap(f) == [nil |-> FALSE, m |-> f]

MetaKeys == { KeyNames[1], KeyNames[2] }

StrMaps ==
    { NilStrMap } \cup
    { StrMap(f) : f \in UNION { [ks -> Scalars] : ks \in SUBSET MetaKeys } }

\* obj.GetAnnotations(), obj.SetAnnotations(m), obj.GetLabels(), obj.SetLabels(m)
GetAnnotations(obj)    == obj.annotations
PutAnnotations(obj, m) == [obj EXCEPT !.annotations = m]
GetLabels(obj)         == obj.labels
PutLabels(obj, m)      == [obj EXCEPT !.labels = m]

\* make(map[string]string) when the map is nil
OrMake(m) == IF m.nil THEN StrMap(<<>>) ELSE m

\* annotations[key] = value
StrMapSet(m, key, value) ==
    StrMap([k \in DOMAIN m.m \cup {key} |-> IF k = key THEN value ELSE m.m[k]])

\* maps.Copy(dst, src)
MapsCopy(dst, src) ==
    StrMap([k \in DOMAIN dst.m \cup DOMAIN src.m |->
               IF k \in DOMAIN src.m THEN src.m[k] ELSE dst.m[k]])

SetAnnotation(obj, key, value) ==
    PutAnnotations(obj, StrMapSet(OrMake(GetAnnotations(obj)), key, value))

\* (a SetAnnotations that stores the given map in place of the old one)
SetAnnotationsReplaces(obj, toSet) ==
    PutAnnotations(obj, MapsCopy(StrMap(<<>>), toSet))

SetAnnotations(obj, toSet) ==
    PutAnnotations(obj, MapsCopy(OrMake(GetAnnotations(obj)), toSet))

SetLabel(obj, key, value) ==
    PutLabels(obj, StrMapSet(OrMake(GetLabels(obj)), key, value))

SetLabels(obj, toSet) ==
    PutLabels(obj, MapsCopy(OrMake(GetLabels(obj)), toSet))

\* the object is the one cell of the heap
MetaInit ==
    /\ now = 0
    /\ ttl = defaultTTL
    /\ keyFunc = "default"
    /\ entries = NoEntries
    /\ ret = NoRet
    /\ lastSet = NoEntries
    /\ ConcIdle
    /\ arrs = <<>>
    /\ objs = <<>>
    /\ held = {}
    /\ stored = NoEntries
    /\ wrapper = "ready"
    /\ plain = NoEntries
    /\ call = [fn |-> "none", in |-> <<>>, out |-> <<>>]
    /\ \E a \in StrMaps, l \in StrMaps :
          cells = << [annotations |-> a, labels |-> l] >>

MetaFrame == UNCHANGED <<cacheVars, seqVars, concVars, arrs, objs, held, stored, wrapper, plain>>

\* call.in is the map of the key/values supplied, call.out the object before
CallSetAnnotation ==
    /\ call.fn = "none"
    /\ \E key \in MetaKeys, value \in Scalars :
          /\ cells' = << SetAnnotation(cells[1], key, value) >>
          /\ call' = [fn |-> "SetAnnotation", in |-> <<StrMap(key :> value)>>, out |-> cells]
    /\ MetaFrame

CallSetAnnotations ==
    /\ call.fn = "none"
    /\ \E toSet \in StrMaps :
          /\ cells' = << SetAnnotations(cells[1], toSet) >>
          /\ call' = [fn |-> "SetAnnotations", in |-> <<toSet>>, out |-> cells]
    /\ MetaFrame

CallSetLabel ==
    /\ call.fn = "none"
    /\ \E key \in MetaKeys, value \in Scalars :
          /\ cells' = << SetLabel(cells[1], key, value) >>
          /\ call' = [fn |-> "SetLabel", in |-> <<StrMap(key :> value)>>, out |-> cells]
    /\ MetaFrame

CallSetLabels ==
    /\ call.fn = "none"
    /\ \E toSet \in StrMaps :
          /\ cells' = << SetLabels(cells[1], toSet) >>
          /\ call' = [fn |-> "SetLabels", in |-> <<toSet>>, out |-> cells]
    /\ MetaFrame

MetaNext == CallSetAnnotation \/ CallSetAnnotations \/ CallSetLabel \/ CallSetLabels

SpecMeta == MetaInit /\ [][MetaNext]_vars

\* new is old overridden by the key/values of given, and is a map
Overridden(new, old, given) ==
    /\ ~new.nil
    /\ DOMAIN new.m = DOMAIN old.m \cup DOMAIN given.m
    /\ \A k \in DOMAIN given.m : new.m[k] = given.m[k]
    /\ \A k \in DOMAIN old.m \ DOMAIN given.m : new.m[k] = old.m[k]

\* C32: after SetAnnotation or SetAnnotations the object's annotations are
\* its previous annotations overridden by the key/values supplied (keys not
\* supplied keep their value, a missing map is created) and its labels are
\* as before; after SetLabel or SetLabels, the same with labels and
\* annotations exchanged.
C32_SetMergesIntoMap ==
    /\ call.fn \in {"SetAnnotation", "SetAnnotations"} =>
          /\ Overridden(cells[1].annotations, call.out[1].annotations, call.in[1])
          /\ cells[1].labels = call.out[1].labels
    /\ call.fn \in {"SetLabel", "SetLabels"} =>
          /\ Overridden(cells[1].labels, call.out[1].labels, call.in[1])
          /\ cells[1].annotations = call.out[1].annotations

\* C32 witness: SetAnnotations with {a: s2} on an object with annotations
\* {a: s1, b: s1} and no labels
C32_Witness ==
    /\ call.fn = "SetAnnotations"
    /\ call.in[1] = StrMap(KeyNames[1] :> "s2")
    /\ call.out[1].annotations = StrMap((KeyNames[1] :> "s1") @@ (KeyNames[2] :> "s1"))
    /\ call.out[1].labels = NilStrMap
    /\ cells[1].annotations = StrMap((KeyNames[1] :> "s2") @@ (KeyNames[2] :> "s1"))
    /\ cells[1].labels = NilStrMap

----------------------------------------------------------------------------
(* Expiry and Sync in the sequential client (specification Spec) *)

\* C33: in every state the ttl is positive and every stored entry has
\* expiresAt = (time of the Set that wrote it) + ttl, so its expiresAt is
\* later than the time it was stored, and the entry a Set has just stored is
\* not expired.
C33_ExpiryIsSetTimePlusTTL ==
    /\ ttl > 0
    /\ \A key \in DOMAIN entries :
          /\ key \in DOMAIN lastSet
          /\ entries[key].expiration = lastSet[key].at + ttl
          /\ entries[key].expiration > lastSet[key].at
    /\ ret.op = "Set" =>
          /\ RetKey \in DOMAIN entries
          /\ now < entries[RetKey].expiration

\* C33 witness: a Set at time 1 has stored an entry, and at time 2 another
\* Set has stored one under another key
C33_Witness ==
    /\ ret.op = "Set"
    /\ now = 2
    /\ \E key \in DOMAIN entries :
          /\ key # RetKey
          /\ lastSet[key].at = 1
          /\ entries[key].expiration = 1 + ttl

\* C34: a Sync adds no key, changes the value and the expiresAt of no entry
\* it leaves, and leaves every entry whose expiresAt the clock has not passed.
C34_SyncOnlyRemoves ==
    [][ret'.op = "Sync" =>
          /\ DOMAIN entries' \subseteq DOMAIN entries
          /\ \A key \in DOMAIN entries' : entries'[key] = entries[key]
          /\ \A key \in DOMAIN entries :
                ~ (now > entries[key].expiration) => key \in DOMAIN entries']_vars

\* C34 witness: a Sync has removed an expired entry and left one that is not
C34_Witness ==
    /\ ret.op = "Sync"
    /\ \E key \in DOMAIN entries : now <= entries[key].expiration
    /\ \E key \in DOMAIN lastSet :
          /\ key \notin DOMAIN entries
          /\ now > lastSet[key].at + ttl

----------------------------------------------------------------------------
(* A cache and the same cache never swept: specification SpecSweep.  plain   *)
(* is the store the same Sets would have built had Sync never run.           *)

\* "1", 1 and one struct: two normalized keys under DefaultKeyFunc
SweepKeys == { StrKey(<<49>>), IntKey(1), SpecKey(<<47, 112>>, <<118, 49>>) }

SweepInit ==
    /\ now = 0
    /\ \E d \in 1 .. MaxTime :
          /\ ttl = New(<<WithTTL(d)>>).ttl
          /\ keyFunc = New(<<WithTTL(d)>>).keyFunc
    /\ entries = NoEntries
    /\ ret = NoRet
    /\ lastSet = NoEntries
    /\ ConcIdle
    /\ arrs = <<>>
    /\ objs = <<>>
    /\ held = {}
    /\ stored = NoEntries
    /\ wrapper = "ready"
    /\ call = [fn |-> "none", in |-> <<>>, out |-> <<>>]
    /\ plain = NoEntries
    /\ cells = <<>>

SweepFrame == UNCHANGED <<concVars, arrs, objs, stored, wrapper, cells>>

SweepTick ==
    /\ now < MaxTime
    /\ now' = now + 1
    /\ ret' = NoRet
    /\ call' = [fn |-> "none", in |-> <<>>, out |-> <<>>]
    /\ UNCHANGED <<ttl, keyFunc, entries, lastSet, plain, held>>
    /\ SweepFrame

\* call.out holds what the Get of the cache never swept returns
SweepGet ==
    /\ \E k \in SweepKeys :
          LET r      == CacheGet(entries, keyFunc, k, now)
              strKey == ApplyKeyFunc(keyFunc, k)
          IN  /\ held' = IF ~ r.found /\ strKey \in DOMAIN lastSet
                         THEN held \cup {strKey} ELSE held
              /\ ret' = [op |-> "Get", key |-> k, value |-> r.value,
                         found |-> r.found, prev |-> NoExpiration]
              /\ entries' = CacheGetStore(entries, keyFunc, k, now)
              /\ plain' = CacheGetStore(plain, keyFunc, k, now)
              /\ call' = [fn |-> "Get", in |-> <<k, strKey \in held>>,
                          out |-> <<CacheGet(plain, keyFunc, k, now)>>]
    /\ UNCHANGED <<now, ttl, keyFunc, lastSet>>
    /\ SweepFrame

SweepSet ==
    /\ \E k \in SweepKeys, v \in Values :
          /\ held' = held \ {ApplyKeyFunc(keyFunc, k)}
          /\ entries' = CacheSet(entries, keyFunc, ttl, k, v, now)
          /\ plain' = CacheSet(plain, keyFunc, ttl, k, v, now)
          /\ ret' = [op |-> "Set", key |-> k, value |-> v, found |-> FALSE,
                     prev |-> NoExpiration]
          /\ lastSet' = MapPut(lastSet, ApplyKeyFunc(keyFunc, k),
                               [value |-> v, at |-> now, key |-> k])
          /\ call' = [fn |-> "Set", in |-> <<k, ApplyKeyFunc(keyFunc, k) \in held>>,
                      out |-> <<>>]
    /\ UNCHANGED <<now, ttl, keyFunc>>
    /\ SweepFrame

\* call.out holds the keys the Sync has deleted
SweepSync ==
    /\ entries' = CacheSync(entries, now)
    /\ ret' = [op |-> "Sync", key |-> NoKey, value |-> Zero, found |-> FALSE,
               prev |-> NoExpiration]
    /\ call' = [fn |-> "Sync", in |-> <<>>,
                out |-> <<DOMAIN entries \ DOMAIN CacheSync(entries, now)>>]
    /\ UNCHANGED <<now, ttl, keyFunc, lastSet, plain, held>>
    /\ SweepFrame

SweepNext == SweepTick \/ SweepGet \/ SweepSet \/ SweepSync

SpecSweep == SweepInit /\ [][SweepNext]_vars

C36_ExpiredUntilSet ==
    /\ \A key \in held :
          \A k \in SweepKeys :
              ApplyKeyFunc(keyFunc, k) = key =>
                  \A t \in now .. MaxTime + 1 :
                      ~ CacheGet(entries, keyFunc, k, t).found
    /\ (ret.op = "Get" /\ call.in[2]) => (~ ret.found /\ ret.value = Zero)
    /\ ret.op = "Set" =>
          /\ RetKey \notin held
          /\ entries[RetKey].expiration = now + ttl
          /\ \A k \in SweepKeys :
                ApplyKeyFunc(keyFunc, k) = RetKey =>
                    CacheGet(entries, keyFunc, k, now) =
                        [value |-> ret.value, found |-> TRUE]

\* C36 witness: a Get misses on a key that an earlier Get had found expired
\* and that was not Set since, a Sync having deleted the entry in between,
\* while the other key, Set again after its expiry, is stored
C36_Witness ==
    /\ ret.op = "Get"
    /\ call.in[2]
    /\ ~ ret.found
    /\ RetKey \notin DOMAIN entries
    /\ \E key \in DOMAIN entries :
          /\ lastSet[key].at = now
          /\ key \notin held

----------------------------------------------------------------------------
(* Two Sets and a Get with keys of several types on a cache with the default *)
(* KeyFunc: specification SpecAlias.  call.in is <<k1, a, k2, b>>, call.out  *)
(* the Sets made so far.                                                     *)

\* 1, int64(1), "1" and []byte("1")
Ones == { IntKey(1), Int64Key(1), StrKey(<<49>>), BytesKey(<<49>>) }

AliasKeys == Ones \cup { Int32Key(1), IntKey(2) }

AliasInit ==
    /\ now = 0
    /\ ttl = New(<<>>).ttl
    /\ keyFunc = New(<<>>).keyFunc
    /\ entries = NoEntries
    /\ ret = NoRet
    /\ lastSet = NoEntries
    /\ ConcIdle
    /\ arrs = <<>>
    /\ objs = <<>>
    /\ held = {}
    /\ stored = NoEntries
    /\ wrapper = "ready"
    /\ plain = NoEntries
    /\ cells = <<>>
    /\ \E k1 \in AliasKeys, k2 \in AliasKeys, a \in Values, b \in Values :
          call = [fn |-> "Set", in |-> <<k1, a, k2, b>>, out |-> <<>>]

AliasFrame == UNCHANGED <<concVars, arrs, objs, held, stored, wrapper, plain, cells>>

\* c.Set(k1, a), then c.Set(k2, b)
AliasSet ==
    /\ Len(call.out) < 2
    /\ LET i == Len(call.out) + 1
           k == call.in[2 * i - 1]
           v == call.in[2 * i]
       IN  /\ entries' = CacheSet(entries, keyFunc, ttl, k, v, now)
           /\ ret' = [op |-> "Set", key |-> k, value |-> v, found |-> FALSE,
                      prev |-> NoExpiration]
           /\ lastSet' = MapPut(lastSet, ApplyKeyFunc(keyFunc, k),
                                [value |-> v, at |-> now, key |-> k])
           /\ call' = [call EXCEPT !.out = Append(call.out, i)]
    /\ UNCHANGED <<now, ttl, keyFunc>>
    /\ AliasFrame

\* c.Get(k) after the two Sets
AliasGet ==
    /\ Len(call.out) = 2
    /\ \E k \in AliasKeys :
          LET r == CacheGet(entries, keyFunc, k, now)
          IN  /\ ret' = [op |-> "Get", key |-> k, value |-> r.value,
                         found |-> r.found, prev |-> NoExpiration]
              /\ entries' = CacheGetStore(entries, keyFunc, k, now)
    /\ UNCHANGED <<now, ttl, keyFunc, lastSet, call>>
    /\ AliasFrame

AliasNext == AliasSet \/ AliasGet

SpecAlias == AliasInit /\ [][AliasNext]_vars

\* C37: with the default KeyFunc, after Set(k1, a) and then Set(k2, b) with
\* k1 and k2 among 1, int64(1), "1" and []byte("1"), the store holds a single
\* entry and a Get of any of these four keys returns (b, true).
C37_TypesShareEntry ==
    (Len(call.out) = 2 /\ call.in[1] \in Ones /\ call.in[3] \in Ones) =>
        /\ Cardinality(DOMAIN entries) = 1
        /\ (ret.op = "Get" /\ ret.key \in Ones) =>
              (ret.found /\ ret.value = call.in[4])

\* C37 witness: after Set(1, 1) and Set("1", 2), Get(int64(1)) has returned
\* (2, true)
C37_Witness ==
    /\ call.in = <<IntKey(1), 1, StrKey(<<49>>), 2>>
    /\ Len(call.out) = 2
    /\ Cardinality(DOMAIN entries) = 1
    /\ ret = [op |-> "Get", key |-> Int64Key(1), value |-> 2, found |-> TRUE,
              prev |-> NoExpiration]

----------------------------------------------------------------------------
(* DeepMerge of a map with itself and of three maps, grouped either way:     *)
(* specification SpecAssoc                                                   *)

AssocKeys == { KeyNames[1], KeyNames[2] }

\* two scalars, nil, a []any, a nil map, and three maps of one key
AssocValues ==
    { Leaf("s1"), Leaf("s2"), Leaf("nil"), AnysOf(<<"s1">>), NilMap,
      Map1(KeyNames[1], Leaf("s1")), Map1(KeyNames[1], Leaf("s2")),
      Map1(KeyNames[2], Leaf("s1")) }

AssocMaps ==
    UNION { { Mk("map", ch) : ch \in [S -> AssocValues] } : S \in SUBSET AssocKeys }

\* every path holds a map in all of the trees that have it, or in none
TypeConsistent(ts) ==
    \A p \in UNION { DOMAIN t : t \in ts } :
        \/ \A t \in ts : p \in DOMAIN t => t[p] \in {"map", "nilmap"}
        \/ \A t \in ts : p \in DOMAIN t => t[p] \notin {"map", "nilmap"}

AssocInit ==
    /\ now = 0
    /\ ttl = 0
    /\ keyFunc = "nil"
    /\ entries = NoEntries
    /\ ret = NoRet
    /\ lastSet = NoEntries
    /\ ConcIdle
    /\ arrs = <<>>
    /\ objs = <<>>
    /\ held = {}
    /\ stored = NoEntries
    /\ wrapper = "ready"
    /\ plain = NoEntries
    /\ cells = <<>>
    /\ \E a \in AssocMaps, b \in AssocMaps, c \in AssocMaps :
          /\ TypeConsistent({a, b, c})
          /\ call = [fn |-> "DeepMerge", in |-> <<a, b, c>>, out |-> <<>>]

\* DeepMerge(a, a), DeepMerge(DeepMerge(a, b), c), DeepMerge(a, DeepMerge(b, c))
AssocCall ==
    /\ call.out = <<>>
    /\ LET a == call.in[1]
           b == call.in[2]
           c == call.in[3]
       IN  call' = [call EXCEPT !.out = << DeepMerge(a, a),
                                           DeepMerge(DeepMerge(a, b), c),
                                           DeepMerge(a, DeepMerge(b, c)) >>]
    /\ UNCHANGED <<cacheVars, seqVars, concVars, arrs, objs, held, stored, wrapper, plain, cells>>

AssocNext == AssocCall

SpecAssoc == AssocInit /\ [][AssocNext]_vars

\* equivalence of two trees: the same keys, lengths and order of elements,
\* the same kind of value and the same scalar at each place; an empty
\* container and a nil one of the same kind are not told apart
Shape(label) == IF label = "nilmap" THEN "map" ELSE Kind(label)

Equiv(a, b) ==
    /\ DOMAIN a = DOMAIN b
    /\ \A p \in DOMAIN a : Shape(a[p]) = Shape(b[p])

----------------------------------------------------------------------------
(* A nil value in overlay (specification SpecMerge) *)

\* C39: a key that overlay holds with the value nil is a key of
\* DeepMerge(base, overlay) with the value nil, whether base is nil, lacks
\* the key or holds a scalar, a sequence or a map under it; a nil overlay
\* gives the keys and values of base.
C39_NilValueIsPresent ==
    call.out # <<>> =>
        /\ \A k \in KeysOf(call.in[2]) :
              Child(call.in[2], k) = Leaf("nil") =>
                  /\ k \in KeysOf(call.out[1])
                  /\ Child(call.out[1], k) = Leaf("nil")
        /\ (call.in[2] = NilMap /\ call.in[1] # NilMap) =>
              /\ KeysOf(call.out[1]) = KeysOf(call.in[1])
              /\ \A k \in KeysOf(call.in[1]) :
                    StructEq(Child(call.out[1], k), Child(call.in[1], k))

\* C39 witness: base = {a: {}, b: [s1]} and overlay = {a: nil, b: nil} give
\* {a: nil, b: nil}
C39_Witness ==
    /\ call.in = << Map2(KeyNames[1], EmptyMap, KeyNames[2], AnysOf(<<"s1">>)),
                    Map2(KeyNames[1], Leaf("nil"), KeyNames[2], Leaf("nil")) >>
    /\ call.out = << Map2(KeyNames[1], Leaf("nil"), KeyNames[2], Leaf("nil")) >>

----------------------------------------------------------------------------
(* The order of the options (specification SpecNew) *)

\* the option list without its last option
ButLast(opts) == SubSeq(opts, 1, Len(opts) - 1)

\* C40: the last option of the list decides over what the options before it
\* give: a last WithTTL(d) gives ttl d, or the default when d <= 0, and the
\* key function of the list before it; a last WithKeyFunc(f) gives f, or
\* DefaultKeyFunc when f is nil, and the ttl of the list before it; a last
\* struct Options gives its TTL when that is positive and its KeyFunc when
\* that is not nil, and for the rest what the list before it gives.  So
\* WithTTL(d > 0), WithTTL(0) gives the default of 5 minutes and
\* WithTTL(d > 0), Options{TTL: 0} gives d.
C40_OptionsInOrder ==
    (call.out = "done" /\ call.in # <<>>) =>
        LET last   == call.in[Len(call.in)]
            before == New(ButLast(call.in))
        IN  /\ last.opt = "WithTTL" =>
                  /\ ttl = IF last.TTL > 0 THEN last.TTL ELSE defaultTTL
                  /\ keyFunc = before.keyFunc
            /\ last.opt = "WithKeyFunc" =>
                  /\ keyFunc = IF last.KeyFunc # "nil" THEN last.KeyFunc ELSE "default"
                  /\ ttl = before.ttl
            /\ last.opt = "Options" =>
                  /\ ttl = IF last.TTL > 0 THEN last.TTL ELSE before.ttl
                  /\ keyFunc = IF last.KeyFunc # "nil" THEN last.KeyFunc
                               ELSE before.keyFunc
            /\ (/\ Len(call.in) = 2
                /\ call.in[1].opt = "WithTTL"
                /\ call.in[1].TTL > 0) =>
                  /\ (last.opt = "WithTTL" /\ last.TTL = 0) => ttl = 5
                  /\ (last.opt = "Options" /\ last.TTL = 0) => ttl = call.in[1].TTL

\* C40 witness: New(WithTTL(2), Options{TTL: 0, KeyFunc: nil}) has returned a
\* cache with ttl 2 and DefaultKeyFunc
C40_Witness ==
    /\ call.in = <<WithTTL(2), Options(0, "nil")>>
    /\ call.out = "done"
    /\ ttl = 2
    /\ keyFunc = "default"

====
